---- MODULE Spec2Model ----
(***************************************************************************)
(* A model of the Alice replay parser (AliceStats/Alice): the bit-level    *)
(* wire decoder, the property decoder, the string table synchroniser and   *)
(* the entity engine, each as a state machine translated from the C++.     *)
(*                                                                         *)
(* Integers wider than 30 bits are kept as little-endian bit sequences     *)
(* (bit 1 is the least significant one).                                   *)
(***************************************************************************)
EXTENDS Integers, Sequences, FiniteSets, TLC

\* ------------------------------------------------------------------------
\* Bounds of the model
\* ------------------------------------------------------------------------

\* Longest byte buffer a bitstream of the property harness is built from.
MaxBytes == 5

\* Largest bit position the property harness starts from.
MaxStart == 1

\* ------------------------------------------------------------------------
\* Program constants
\* ------------------------------------------------------------------------

NORMAL_FRACTION_BITS == 11
VARINT32_MAX == 5
VARINT64_MAX == 10
COORD_INTEGER_BITS == 14
COORD_FRACTION_BITS == 5
COORD_INTEGER_BITS_MP == 11
COORD_FRACTION_BITS_MP_LOWPRECISION == 3
CELL_COORD_FRACTION_BITS == 5
CELL_COORD_FRACTION_BITS_LOWPRECISION == 3
PROPERTY_MAX_STRING_LENGTH == 512
PROPERTY_MAX_ELEMENTS == 100

\* ------------------------------------------------------------------------
\* Helpers on bit sequences
\* ------------------------------------------------------------------------

RECURSIVE Pow2(_)
Pow2(n) == IF n = 0 THEN 1 ELSE 2 * Pow2(n - 1)

\* The number a bit sequence of at most 30 bits stands for.
RECURSIVE BitsToNat(_)
BitsToNat(b) == IF b = <<>> THEN 0 ELSE b[1] + 2 * BitsToNat(Tail(b))

\* b, cut or zero-extended to w bits (a conversion to an unsigned w-bit integer).
ZeroExt(b, w) == [i \in 1..w |-> IF i <= Len(b) THEN b[i] ELSE 0]

\* b, cut or sign-extended to w bits.
SignExt(b, w) == [i \in 1..w |-> IF i <= Len(b) THEN b[i] ELSE b[Len(b)]]

AllZero(b) == \A i \in 1..Len(b) : b[i] = 0

\* ------------------------------------------------------------------------
\* bitstream (bitstream.hpp, bitstream.cpp).  A stream is d = [bytes, size]
\* with size in bits, and a position carried separately.  Every operation
\* returns [ok, err, pos, val]: pos is where the stream stands afterwards,
\* also when the operation threw.
\* ------------------------------------------------------------------------

bitstream(bytes) == [bytes |-> bytes, size |-> 8 * Len(bytes)]

Ok(p, v) == [ok |-> TRUE, err |-> "", pos |-> p, val |-> v]

Throw(e, p) == [ok |-> FALSE, err |-> e, pos |-> p, val |-> <<>>]

\* Bit i (from 0) of the buffer, as the word array holds it (little endian).
BitAt(d, i) == (d.bytes[(i \div 8) + 1] \div Pow2(i % 8)) % 2

read(d, p, n) ==
    IF n > d.size - p THEN Throw("bitstreamOverflow", p)
    ELSE IF n > 32 THEN Throw("bitstreamOverflow", p)
    ELSE Ok(p + n, [i \in 1..n |-> BitAt(d, p + i - 1)])

\* A seek that adds n and does not look at the size.
seekForward_unclamped(d, p, n) == p + n

\* pos += n; if (pos > size) pos = size.  n is a size_type: a negative n
\* stands for 2^64 + n, the values next to the largest one, with which
\* pos + n wraps around once p + n reaches 2^64.
seekForward(d, p, n) ==
    IF n < 0 THEN (IF p + n >= 0 THEN p + n ELSE d.size)
    ELSE IF p + n > d.size THEN d.size ELSE p + n

\* A seek backward that tests for the underflow and leaves pos as it is.
seekBackward_keepsPosition(p, n) == IF n < 0 \/ n > p THEN 0 ELSE p

\* if ((pos - n) > pos) pos = 0; else pos -= n.  With n = 2^64 + n (n < 0)
\* pos - n wraps to pos - n > pos.
seekBackward(p, n) == IF n < 0 \/ n > p THEN 0 ELSE p - n

nReadUInt(d, p, n) ==
    LET r == read(d, p, n)
    IN  IF r.ok THEN Ok(r.pos, ZeroExt(r.val, 32)) ELSE r

\* A signed read that leaves out the sign: the bits read, zero extended.
nReadSInt_unsigned(d, p, n) ==
    LET r == read(d, p, n)
    IN  IF r.ok THEN Ok(r.pos, ZeroExt(r.val, 32)) ELSE r

\* ret = read(n); sign = 1 << (n-1); if (ret >= sign) ret = ret - sign - sign
nReadSInt(d, p, n) ==
    LET r == read(d, p, n)
    IN  IF r.ok THEN Ok(r.pos, SignExt(r.val, 32)) ELSE r

nReadNormal(d, p) ==
    LET s == read(d, p, 1)
    IN  IF ~s.ok THEN s
        ELSE LET f == read(d, s.pos, NORMAL_FRACTION_BITS)
             IN  IF ~f.ok THEN f
                 ELSE Ok(f.pos, [kind |-> "normal", sign |-> s.val[1],
                                 fraction |-> BitsToNat(f.val)])

nSkipNormal(d, p) == Ok(seekForward(d, p, NORMAL_FRACTION_BITS + 1), <<>>)

\* value |= (tmpBuf & 0x7F) << (7*readCount), in a w-bit unsigned integer
VarPut(value, byte, readCount, w) ==
    [i \in 1..w |-> IF i > 7 * readCount /\ i <= 7 * readCount + 7
                    THEN IF value[i] = 1 THEN 1 ELSE byte[i - 7 * readCount]
                    ELSE value[i]]

RECURSIVE VarLoop(_, _, _, _, _, _)
VarLoop(d, p, readCount, value, max, w) ==
    IF readCount = max THEN Ok(p, value)
    ELSE LET t == read(d, p, 8)
         IN  IF ~t.ok THEN t
             ELSE LET v == VarPut(value, t.val, readCount, w)
                  IN  IF t.val[8] = 1
                      THEN VarLoop(d, t.pos, readCount + 1, v, max, w)
                      ELSE Ok(t.pos, v)

nReadVarUInt32(d, p) == VarLoop(d, p, 0, ZeroExt(<<>>, 32), VARINT32_MAX, 32)

nReadVarUInt64(d, p) == VarLoop(d, p, 0, ZeroExt(<<>>, 64), VARINT64_MAX, 64)

\* (value >> 1) ^ -(value & 1)
ZigZag(v) ==
    [i \in 1..Len(v) |-> LET s == IF i < Len(v) THEN v[i + 1] ELSE 0
                         IN  IF s = v[1] THEN 0 ELSE 1]

nReadVarSInt32(d, p) ==
    LET r == nReadVarUInt32(d, p)
    IN  IF r.ok THEN Ok(r.pos, ZigZag(r.val)) ELSE r

nReadVarSInt64(d, p) ==
    LET r == nReadVarUInt64(d, p)
    IN  IF r.ok THEN Ok(r.pos, ZigZag(r.val)) ELSE r

\* do { seekForward(7); } while (read(1));
RECURSIVE nSkipVarInt(_, _)
nSkipVarInt(d, p) ==
    LET r == read(d, seekForward(d, p, 7), 1)
    IN  IF ~r.ok THEN r
        ELSE IF r.val[1] = 1 THEN nSkipVarInt(d, r.pos) ELSE Ok(r.pos, <<>>)

nReadCoord(d, p) ==
    LET i == read(d, p, 1)
    IN  IF ~i.ok THEN i
        ELSE
        LET f == read(d, i.pos, 1)
        IN  IF ~f.ok THEN f
            ELSE IF i.val[1] = 0 /\ f.val[1] = 0
            THEN Ok(f.pos, [kind |-> "coord", sign |-> 0, int |-> 0, frac |-> 0])
            ELSE
            LET s  == read(d, f.pos, 1)
                iv == IF s.ok /\ i.val[1] = 1
                      THEN read(d, s.pos, COORD_INTEGER_BITS) ELSE s
                fv == IF iv.ok /\ f.val[1] = 1
                      THEN read(d, iv.pos, COORD_FRACTION_BITS) ELSE iv
            IN  IF ~s.ok THEN s
                ELSE IF ~iv.ok THEN iv
                ELSE IF ~fv.ok THEN fv
                ELSE Ok(fv.pos,
                        [kind |-> "coord", sign |-> s.val[1],
                         int  |-> IF i.val[1] = 1 THEN BitsToNat(iv.val) + 1 ELSE 0,
                         frac |-> IF f.val[1] = 1 THEN BitsToNat(fv.val) ELSE 0])

nSkipCoord(d, p) ==
    LET r == read(d, p, 2)
        v == BitsToNat(r.val)
    IN  IF ~r.ok THEN r
        ELSE IF v = 1 THEN Ok(seekForward(d, r.pos, COORD_INTEGER_BITS + 1), <<>>)
        ELSE IF v = 2 THEN Ok(seekForward(d, r.pos, COORD_FRACTION_BITS + 1), <<>>)
        ELSE IF v = 3
        THEN Ok(seekForward(d, r.pos, COORD_INTEGER_BITS + COORD_FRACTION_BITS + 1), <<>>)
        ELSE Ok(r.pos, <<>>)

\* static const unsigned char bits[8], indexed from 0
CoordMpBits ==
    << COORD_FRACTION_BITS,
       COORD_FRACTION_BITS,
       COORD_FRACTION_BITS + COORD_INTEGER_BITS,
       COORD_FRACTION_BITS + COORD_INTEGER_BITS_MP,
       COORD_FRACTION_BITS_MP_LOWPRECISION,
       COORD_FRACTION_BITS_MP_LOWPRECISION,
       COORD_FRACTION_BITS_MP_LOWPRECISION + COORD_INTEGER_BITS,
       COORD_FRACTION_BITS_MP_LOWPRECISION + COORD_INTEGER_BITS_MP >>

\* flags & (flag_inbound | flag_intval)
CoordMpLow2(flags) == flags[1] + 2 * flags[2]

nReadCoordMp(d, p, integral, lowPrecision) ==
    LET fl == IF integral THEN read(d, p, 3) ELSE read(d, p, 2)
    IN  IF ~fl.ok THEN fl
        ELSE IF integral
        THEN IF fl.val[2] = 1
             THEN LET toRead == IF fl.val[1] = 1 THEN COORD_INTEGER_BITS_MP + 1
                                ELSE COORD_INTEGER_BITS + 1
                      b == read(d, fl.pos, toRead)
                  IN  IF ~b.ok THEN b
                      ELSE Ok(b.pos, [kind |-> "coordmp", sign |-> b.val[1],
                                      int |-> BitsToNat(Tail(b.val)) + 1, raw |-> 0])
             ELSE Ok(fl.pos, [kind |-> "coordmp", sign |-> 0, int |-> 0, raw |-> 0])
        ELSE LET n == CoordMpBits[CoordMpLow2(fl.val) + (IF lowPrecision THEN 4 ELSE 0) + 1]
                 v == read(d, fl.pos, n)
             IN  IF ~v.ok THEN v
                 ELSE Ok(v.pos, [kind |-> "coordmp", sign |-> 0,
                                 int |-> fl.val[2], raw |-> BitsToNat(v.val)])

nSkipCoordMp(d, p, integral, lowPrecision) ==
    LET fl == IF integral THEN read(d, p, 3) ELSE read(d, p, 2)
    IN  IF ~fl.ok THEN fl
        ELSE IF integral /\ fl.val[2] = 1
        THEN Ok(seekForward(d, fl.pos, IF fl.val[1] = 1 THEN COORD_INTEGER_BITS_MP + 1
                                       ELSE COORD_INTEGER_BITS + 1), <<>>)
        ELSE Ok(seekForward(d, fl.pos,
                  CoordMpBits[CoordMpLow2(fl.val) + (IF lowPrecision THEN 4 ELSE 0) + 1]),
                <<>>)

nReadCellCoord(d, p, n, integral, lowPrecision) ==
    LET v == read(d, p, n)
    IN  IF ~v.ok THEN v
        ELSE IF integral
        THEN Ok(v.pos, [kind |-> "cell", int |-> v.val, frac |-> 0])
        ELSE LET f == read(d, v.pos, IF lowPrecision
                                     THEN CELL_COORD_FRACTION_BITS_LOWPRECISION
                                     ELSE CELL_COORD_FRACTION_BITS)
             IN  IF ~f.ok THEN f
                 ELSE Ok(f.pos, [kind |-> "cell", int |-> v.val,
                                 frac |-> BitsToNat(f.val)])

nSkipCellCoord(d, p, n, integral, lowPrecision) ==
    IF ~integral
    THEN Ok(seekForward(d, p, IF lowPrecision THEN n + 3 ELSE n + 5), <<>>)
    ELSE Ok(seekForward(d, p, n), <<>>)

\* Reads up to n characters, stops behind the first NUL.
RECURSIVE nReadStringLoop(_, _, _, _)
nReadStringLoop(d, p, n, acc) ==
    IF n = 0 THEN Ok(p, acc)
    ELSE LET c == read(d, p, 8)
         IN  IF ~c.ok THEN c
             ELSE IF AllZero(c.val) THEN Ok(c.pos, acc)
             ELSE nReadStringLoop(d, c.pos, n - 1, Append(acc, BitsToNat(c.val)))

\* buffer[n - 1] = '\0' once n characters were read without a NUL
nReadString(d, p, n) ==
    LET r == nReadStringLoop(d, p, n, <<>>)
    IN  IF r.ok /\ Len(r.val) = n /\ n > 0
        THEN Ok(r.pos, SubSeq(r.val, 1, n - 1)) ELSE r

RECURSIVE nSkipString(_, _, _)
nSkipString(d, p, n) ==
    IF n = 0 THEN Ok(p, <<>>)
    ELSE LET c == read(d, p, 8)
         IN  IF ~c.ok THEN c
             ELSE IF AllZero(c.val) THEN Ok(c.pos, <<>>)
             ELSE nSkipString(d, c.pos, n - 1)

\* Reads exactly n bits, eight at a time and then the rest.
RECURSIVE readBitsLoop(_, _, _, _)
readBitsLoop(d, p, remaining, acc) ==
    IF remaining >= 8
    THEN LET c == read(d, p, 8)
         IN  IF ~c.ok THEN c
             ELSE readBitsLoop(d, c.pos, remaining - 8, Append(acc, BitsToNat(c.val)))
    ELSE IF remaining > 0
    THEN LET c == read(d, p, remaining)
         IN  IF ~c.ok THEN c ELSE Ok(c.pos, Append(acc, BitsToNat(c.val)))
    ELSE Ok(p, acc)

readBits(d, p, n) == readBitsLoop(d, p, n, <<>>)

\* ------------------------------------------------------------------------
\* sendprop (sendprop.hpp) and property decode / skip (property.cpp).
\* A sendprop is [type, flags, bits, elements, elemType]; flags is the set
\* of the names of the SPROP_ bits that are set, elemType the prop an Array
\* prop was bound to (or <<>>).
\* ------------------------------------------------------------------------

sendprop(type, flags, bits) ==
    [type |-> type, flags |-> flags, bits |-> bits, elements |-> 0, elemType |-> <<>>]

arrayprop(elements, elemType) ==
    [type |-> "T_Array", flags |-> {}, bits |-> 0,
     elements |-> elements, elemType |-> elemType]

readInt(d, p, pr) ==
    IF "ENCODED_AGAINST_TICKCOUNT" \in pr.flags
    THEN IF "ENCODED_AGAINST_TICKCOUNT" \in pr.flags
         THEN nReadVarUInt32(d, p)
         ELSE nReadVarSInt32(d, p)
    ELSE IF "UNSIGNED" \in pr.flags
         THEN nReadUInt(d, p, pr.bits)
         ELSE nReadSInt(d, p, pr.bits)

skipInt(d, p, pr) ==
    IF "ENCODED_AGAINST_TICKCOUNT" \in pr.flags
    THEN nSkipVarInt(d, p)
    ELSE Ok(seekForward(d, p, pr.bits), <<>>)

IsCellCoord(pr) ==
    \/ "CELL_COORD" \in pr.flags
    \/ "CELL_COORD_INTEGRAL" \in pr.flags
    \/ "CELL_COORD_LOWPRECISION" \in pr.flags

readFloat(d, p, pr) ==
    IF "COORD" \in pr.flags THEN nReadCoord(d, p)
    ELSE IF "COORD_MP" \in pr.flags
    THEN nReadCoordMp(d, p, "COORD_MP_INTEGRAL" \in pr.flags,
                      "COORD_MP_LOWPRECISION" \in pr.flags)
    ELSE IF "NOSCALE" \in pr.flags
    THEN LET v == read(d, p, 32)
         IN  IF v.ok THEN Ok(v.pos, [kind |-> "noscale", raw |-> v.val]) ELSE v
    ELSE IF "NORMAL" \in pr.flags THEN nReadNormal(d, p)
    ELSE IF IsCellCoord(pr)
    THEN nReadCellCoord(d, p, pr.bits, "CELL_COORD_INTEGRAL" \in pr.flags,
                        "CELL_COORD_LOWPRECISION" \in pr.flags)
    ELSE LET v == read(d, p, pr.bits)
         IN  IF v.ok THEN Ok(v.pos, [kind |-> "float", dividend |-> v.val]) ELSE v

skipFloat(d, p, pr) ==
    IF "COORD" \in pr.flags THEN nSkipCoord(d, p)
    ELSE IF "COORD_MP" \in pr.flags
    THEN nSkipCoordMp(d, p, "COORD_MP_INTEGRAL" \in pr.flags,
                      "COORD_MP_LOWPRECISION" \in pr.flags)
    ELSE IF "NOSCALE" \in pr.flags THEN Ok(seekForward(d, p, 32), <<>>)
    ELSE IF "NORMAL" \in pr.flags THEN nSkipNormal(d, p)
    ELSE IF IsCellCoord(pr)
    THEN nSkipCellCoord(d, p, pr.bits, "CELL_COORD_INTEGRAL" \in pr.flags,
                        "CELL_COORD_LOWPRECISION" \in pr.flags)
    ELSE Ok(seekForward(d, p, pr.bits), <<>>)

readVector(d, p, pr) ==
    LET Z(x, y, z) == IF z.ok THEN Ok(z.pos, <<x.val, y.val, z.val>>) ELSE z
        Y(x, y) == Z(x, y, IF ~y.ok THEN y
                           ELSE IF "NORMAL" \in pr.flags THEN read(d, y.pos, 1)
                           ELSE readFloat(d, y.pos, pr))
        X(x) == Y(x, IF x.ok THEN readFloat(d, x.pos, pr) ELSE x)
    IN  X(readFloat(d, p, pr))

skipVector(d, p, pr) ==
    LET Z(y) == IF ~y.ok THEN y
                ELSE IF "NORMAL" \in pr.flags THEN Ok(seekForward(d, y.pos, 1), <<>>)
                ELSE skipFloat(d, y.pos, pr)
        Y(x) == Z(IF x.ok THEN skipFloat(d, x.pos, pr) ELSE x)
    IN  Y(skipFloat(d, p, pr))

readVectorXY(d, p, pr) ==
    LET Y(x, y) == IF y.ok THEN Ok(y.pos, <<x.val, y.val>>) ELSE y
        X(x) == Y(x, IF x.ok THEN readFloat(d, x.pos, pr) ELSE x)
    IN  X(readFloat(d, p, pr))

skipVectorXY(d, p, pr) ==
    LET Y(x) == IF x.ok THEN skipFloat(d, x.pos, pr) ELSE x
    IN  Y(skipFloat(d, p, pr))

readString(d, p) ==
    LET l == read(d, p, 9)
    IN  IF ~l.ok THEN l
        ELSE IF BitsToNat(l.val) > PROPERTY_MAX_STRING_LENGTH
        THEN Throw("propertyInvalidStringLength", l.pos)
        ELSE readBits(d, l.pos, 8 * BitsToNat(l.val))

skipString(d, p) ==
    LET l == read(d, p, 9)
    IN  IF ~l.ok THEN l ELSE nSkipString(d, l.pos, BitsToNat(l.val))

readInt64(d, p, pr) ==
    IF "ENCODED_AGAINST_TICKCOUNT" \in pr.flags
    THEN IF "UNSIGNED" \in pr.flags THEN nReadVarUInt64(d, p) ELSE nReadVarSInt64(d, p)
    ELSE LET signed == "UNSIGNED" \notin pr.flags
             sbits  == IF signed THEN pr.bits - 33 ELSE pr.bits - 32
             neg    == IF signed THEN read(d, p, 1) ELSE Ok(p, <<0>>)
             a      == IF neg.ok THEN read(d, neg.pos, 32) ELSE neg
             b      == IF a.ok THEN read(d, a.pos, sbits) ELSE a
         IN  IF b.ok
             THEN Ok(b.pos, [kind |-> "int64", negate |-> neg.val[1],
                             val |-> a.val \o b.val])
             ELSE b

skipInt64(d, p, pr) ==
    IF "ENCODED_AGAINST_TICKCOUNT" \in pr.flags
    THEN nSkipVarInt(d, p)
    ELSE Ok(seekForward(d, p, pr.bits), <<>>)

\* while (elements) { ++bits; elements >>= 1; }
RECURSIVE ArrayCountBits(_)
ArrayCountBits(elements) ==
    IF elements = 0 THEN 0 ELSE 1 + ArrayCountBits(elements \div 2)

RECURSIVE property_create(_, _, _)
RECURSIVE readArrayLoop(_, _, _, _, _)
readArrayLoop(d, p, aType, count, props) ==
    IF count = 0 THEN Ok(p, props)
    ELSE LET e == property_create(d, p, aType)
         IN  IF ~e.ok THEN e
             ELSE readArrayLoop(d, e.pos, aType, count - 1, Append(props, e.val))

readArray(d, p, pr) ==
    LET c == read(d, p, ArrayCountBits(pr.elements))
    IN  IF ~c.ok THEN c
        ELSE IF BitsToNat(c.val) > PROPERTY_MAX_ELEMENTS
        THEN Throw("propertyInvalidNumberOfElements", c.pos)
        ELSE IF pr.elemType = <<>> THEN Throw("sendpropInvalidArrayAccess", c.pos)
        ELSE readArrayLoop(d, c.pos, pr.elemType, BitsToNat(c.val), <<>>)

\* property::update on a fresh property, then init = true
property_create(d, p, pr) ==
    CASE pr.type = "T_Int"      -> readInt(d, p, pr)
      [] pr.type = "T_Float"    -> readFloat(d, p, pr)
      [] pr.type = "T_Vector"   -> readVector(d, p, pr)
      [] pr.type = "T_VectorXY" -> readVectorXY(d, p, pr)
      [] pr.type = "T_String"   -> readString(d, p)
      [] pr.type = "T_Array"    -> readArray(d, p, pr)
      [] pr.type = "T_Int64"    -> readInt64(d, p, pr)
      [] OTHER                  -> Throw("propertyInvalidType", p)

RECURSIVE property_skip(_, _, _)
RECURSIVE skipArrayLoop(_, _, _, _)
skipArrayLoop(d, p, aType, count) ==
    IF count = 0 THEN Ok(p, <<>>)
    ELSE LET e == property_skip(d, p, aType)
         IN  IF ~e.ok THEN e ELSE skipArrayLoop(d, e.pos, aType, count - 1)

skipArray(d, p, pr) ==
    LET c == read(d, p, ArrayCountBits(pr.elements))
    IN  IF ~c.ok THEN c
        ELSE IF BitsToNat(c.val) > PROPERTY_MAX_ELEMENTS
        THEN Throw("propertyInvalidNumberOfElements", c.pos)
        ELSE IF pr.elemType = <<>> THEN Throw("sendpropInvalidArrayAccess", c.pos)
        ELSE skipArrayLoop(d, c.pos, pr.elemType, BitsToNat(c.val))

property_skip(d, p, pr) ==
    CASE pr.type = "T_Int"      -> skipInt(d, p, pr)
      [] pr.type = "T_Float"    -> skipFloat(d, p, pr)
      [] pr.type = "T_Vector"   -> skipVector(d, p, pr)
      [] pr.type = "T_VectorXY" -> skipVectorXY(d, p, pr)
      [] pr.type = "T_String"   -> skipString(d, p)
      [] pr.type = "T_Array"    -> skipArray(d, p, pr)
      [] pr.type = "T_Int64"    -> skipInt64(d, p, pr)
      [] OTHER                  -> Throw("propertyInvalidType", p)

\* ------------------------------------------------------------------------
\* Send tables and the flattener (parser::flattenSendtables)
\* ------------------------------------------------------------------------

\* Deepest nesting of data tables followed before the call stack is taken to
\* be exhausted.
MaxDepth == 4

\* A sendprop_t of a CSVCMsg_SendTable.
sendprop_t(var_name, type, flags, priority, dt_name) ==
    [var_name |-> var_name, type |-> type, flags |-> flags,
     priority |-> priority, dt_name |-> dt_name]

\* sendprop::sendprop(p, netname); elemType is set only by setArrayType.
tableprop(p, netname) ==
    [name |-> p.var_name, netname |-> netname, type |-> p.type, flags |-> p.flags,
     priority |-> p.priority, classname |-> p.dt_name, elemType |-> ""]

\* sendtable tbl(m->net_table_name(), ...); tbl.insert(...) for each prop
sendtable(m) ==
    [name |-> m.net_table_name,
     props |-> [i \in 1..Len(m.props) |-> tableprop(m.props[i], m.net_table_name)]]

\* sendtables.findKey(name): position of the table first inserted under name,
\* 0 for end().
findKey(tbls, name) ==
    IF \E i \in 1..Len(tbls) : tbls[i].name = name
    THEN CHOOSE i \in 1..Len(tbls) :
            /\ tbls[i].name = name
            /\ \A j \in 1..(i - 1) : tbls[j].name # name
    ELSE 0

\* "Tieing dependend properties": an array's element type is the property
\* in front of it.
RECURSIVE TieLoop(_, _, _)
TieLoop(props, i, last) ==
    IF i > Len(props) THEN [ok |-> TRUE, err |-> "", props |-> props]
    ELSE IF props[i].type = "T_Array" /\ last = ""
    THEN [ok |-> FALSE, err |-> "aliceInvalidArrayProp", props |-> props]
    ELSE TieLoop(IF props[i].type = "T_Array"
                 THEN [props EXCEPT ![i].elemType = last] ELSE props,
                 i + 1, props[i].name)

RECURSIVE TieTables(_, _)
TieTables(tbls, i) ==
    IF i > Len(tbls) THEN [ok |-> TRUE, err |-> "", tbls |-> tbls]
    ELSE LET t == TieLoop(tbls[i].props, 1, "")
             tb == [tbls EXCEPT ![i].props = t.props]
         IN  IF ~t.ok THEN [ok |-> FALSE, err |-> t.err, tbls |-> tb]
             ELSE TieTables(tb, i + 1)

RECURSIVE buildExcludeList(_, _, _, _, _)
buildExcludeList(tbls, tbl, i, excludes, fuel) ==
    IF i > Len(tbl.props) THEN [ok |-> TRUE, err |-> "", excludes |-> excludes]
    ELSE LET pr == tbl.props[i]
         IN  IF "EXCLUDE" \in pr.flags
             THEN buildExcludeList(tbls, tbl, i + 1,
                                   excludes \cup {pr.classname \o pr.name}, fuel)
             ELSE IF pr.type = "T_DataTable"
             THEN IF findKey(tbls, pr.classname) = 0
                  THEN [ok |-> FALSE, err |-> "sendtableUnkownTable",
                        excludes |-> excludes]
                  ELSE IF fuel = 0
                  THEN [ok |-> FALSE, err |-> "stackOverflow", excludes |-> excludes]
                  ELSE LET sub == buildExcludeList(tbls, tbls[findKey(tbls, pr.classname)],
                                                   1, excludes, fuel - 1)
                       IN  IF ~sub.ok THEN sub
                           ELSE buildExcludeList(tbls, tbl, i + 1, sub.excludes, fuel)
             ELSE buildExcludeList(tbls, tbl, i + 1, excludes, fuel)

\* gatherProperties walks tbl from its i-th property; dt_prop collects the
\* properties of the table at hand, props the finished sub tables.
RECURSIVE gatherProperties(_, _, _, _, _, _, _, _)
gatherProperties(tbls, tbl, i, dt_prop, excludes, props, base, fuel) ==
    IF i > Len(tbl.props)
    THEN [ok |-> TRUE, err |-> "", dt_prop |-> dt_prop, props |-> props]
    ELSE LET pr == tbl.props[i]
             fail(e) == [ok |-> FALSE, err |-> e, dt_prop |-> dt_prop, props |-> props]
         IN  IF pr.flags \cap {"EXCLUDE", "INSIDEARRAY"} # {}
             THEN gatherProperties(tbls, tbl, i + 1, dt_prop, excludes, props, base, fuel)
             ELSE IF (tbl.name \o pr.name) \in excludes
             THEN gatherProperties(tbls, tbl, i + 1, dt_prop, excludes, props, base, fuel)
             ELSE IF pr.type = "T_DataTable"
             THEN IF findKey(tbls, pr.classname) = 0 THEN fail("sendtableUnkownTable")
                  ELSE IF fuel = 0 THEN fail("stackOverflow")
                  ELSE LET dtTbl == tbls[findKey(tbls, pr.classname)]
                           sub == IF "COLLAPSIBLE" \in pr.flags
                                  THEN gatherProperties(tbls, dtTbl, 1, dt_prop, excludes,
                                                        props, base, fuel - 1)
                                  ELSE \* buildHierarchy(dtTbl, excludes, props, base.name)
                                       LET h == gatherProperties(tbls, dtTbl, 1, <<>>,
                                                    excludes, props,
                                                    base \o "." \o pr.name, fuel - 1)
                                       IN  [ok |-> h.ok, err |-> h.err, dt_prop |-> dt_prop,
                                            props |-> IF h.ok THEN h.props \o h.dt_prop
                                                      ELSE h.props]
                       IN  IF ~sub.ok THEN sub
                           ELSE gatherProperties(tbls, tbl, i + 1, sub.dt_prop, excludes,
                                                 sub.props, base, fuel)
             ELSE gatherProperties(tbls, tbl, i + 1,
                                   Append(dt_prop, [prop |-> pr,
                                                    name |-> base \o "." \o pr.name]),
                                   excludes, props, base, fuel)

buildHierarchy(tbls, tbl, excludes, props, base, fuel) ==
    LET p == gatherProperties(tbls, tbl, 1, <<>>, excludes, props, base, fuel)
    IN  [ok |-> p.ok, err |-> p.err,
         props |-> IF p.ok THEN p.props \o p.dt_prop ELSE p.props]

\* std::set<uint32_t> priorities({64}), walked in ascending order
Priorities(props) == {64} \cup {props[i].prop.priority : i \in 1..Len(props)}

SetMin(S) == CHOOSE m \in S : \A o \in S : m <= o

Swap(props, a, b) == [props EXCEPT ![a] = props[b], ![b] = props[a]]

\* The pass over props that counts the entries of prio and leaves every
\* entry where it is.
RECURSIVE SortCursor_inPlace(_, _, _, _)
SortCursor_inPlace(props, prio, cursor, offset) ==
    IF cursor >= Len(props) THEN [props |-> props, offset |-> offset]
    ELSE LET prop == props[cursor + 1].prop
         IN  IF prop.priority = prio \/ ("CHANGES_OFTEN" \in prop.flags /\ prio = 64)
             THEN SortCursor_inPlace(props, prio, cursor + 1, offset + 1)
             ELSE SortCursor_inPlace(props, prio, cursor + 1, offset)

\* The pass over props that goes by the declared priority alone.
RECURSIVE SortCursor_byPriorityOnly(_, _, _, _)
SortCursor_byPriorityOnly(props, prio, cursor, offset) ==
    IF cursor >= Len(props) THEN [props |-> props, offset |-> offset]
    ELSE LET prop == props[cursor + 1].prop
         IN  IF prop.priority = prio
             THEN SortCursor_byPriorityOnly(Swap(props, cursor + 1, offset + 1), prio,
                                            cursor + 1, offset + 1)
             ELSE SortCursor_byPriorityOnly(props, prio, cursor + 1, offset)

\* while (cursor < props.size()) { ... }, cursor and offset counted from 0
RECURSIVE SortCursor(_, _, _, _)
SortCursor(props, prio, cursor, offset) ==
    IF cursor >= Len(props) THEN [props |-> props, offset |-> offset]
    ELSE LET prop == props[cursor + 1].prop
         IN  IF prop.priority = prio \/ ("CHANGES_OFTEN" \in prop.flags /\ prio = 64)
             THEN SortCursor(Swap(props, cursor + 1, offset + 1), prio,
                             cursor + 1, offset + 1)
             ELSE SortCursor(props, prio, cursor + 1, offset)

RECURSIVE SortPriorities(_, _, _)
SortPriorities(props, prios, offset) ==
    IF prios = {} THEN props
    ELSE LET prio == SetMin(prios)
             r == SortCursor(props, prio, offset, offset)
         IN  SortPriorities(r.props, prios \ {prio}, r.offset)

\* The flat table of one send table: excludes, hierarchy, priority sort.
FlattenTable(tbls, tbl) ==
    LET Sorted(h) ==
            IF ~h.ok THEN [ok |-> FALSE, err |-> h.err, flat |-> <<>>]
            ELSE [ok |-> TRUE, err |-> "",
                  flat |-> [name |-> tbl.name,
                            properties |->
                                SortPriorities(h.props, Priorities(h.props), 0)]]
        Hierarchy(ex) ==
            IF ~ex.ok THEN [ok |-> FALSE, err |-> ex.err, flat |-> <<>>]
            ELSE Sorted(buildHierarchy(tbls, tbl, ex.excludes, <<>>, "", MaxDepth))
    IN  Hierarchy(buildExcludeList(tbls, tbl, 1, {}, MaxDepth))

\* "Building flattables": one flat table per send table, in index order,
\* appended to those already there; an exception leaves the ones built.
RECURSIVE FlattenLoop(_, _, _)
FlattenLoop(tbls, i, flats) ==
    IF i > Len(tbls) THEN [ok |-> TRUE, err |-> "", flattables |-> flats]
    ELSE LET Built(f) ==
                 IF ~f.ok THEN [ok |-> FALSE, err |-> f.err, flattables |-> flats]
                 ELSE FlattenLoop(tbls, i + 1, Append(flats, f.flat))
         IN  Built(FlattenTable(tbls, tbls[i]))

flattenSendtables(tbls, flats) ==
    LET Flattened(t, f) ==
            [ok |-> f.ok, err |-> f.err, tbls |-> t.tbls, flattables |-> f.flattables]
        Tied(t) ==
            IF ~t.ok THEN [ok |-> FALSE, err |-> t.err, tbls |-> t.tbls,
                           flattables |-> flats]
            ELSE Flattened(t, FlattenLoop(t.tbls, 1, flats))
    IN  Tied(TieTables(tbls, 1))

\* ------------------------------------------------------------------------
\* State
\* ------------------------------------------------------------------------

VARIABLES
    \* property.cpp's TEST_SKIPPING harness (property::update)
    stream,     \* the bitstream: [bytes, size]
    pos,        \* its position, in bits
    hprop,      \* the sendprop of the property under test
    hpc,        \* where the harness stands: start, skipped, rewound, decoded
    cur,        \* position the harness started from
    skipped,    \* what property::skip returned
    decoded,    \* what the decode (property::create) returned
    \* the parser and its entity store
    impl,       \* the parser the program is built with: parser.cpp or parser.hpp
    set,        \* settings handed to the constructor
    callbacks,  \* handler: the <<family, id>> pairs with a registered callback
    sendtables, \* send tables, in index order
    clist,      \* entity_list: class id -> entity_description
    maxClasses, \* entity_list::maxEntities, 0 before reserve()
    flattables, \* flat send tables
    baseline,   \* the "instancebaseline" string table: class id -> field ids
    entities,   \* the initialized slots of the entity vector: id -> entity
    oob,        \* what lies behind the last slot of the entity vector
    delta,      \* entity_delta: [entity_id, entity_fields]
    epc,        \* where the parser stands in the replay
    err,        \* the exception that ended parsing, "" if none
    rec,        \* the PacketEntities record at hand
    events,     \* forward() calls made for the record at hand
    hist,       \* bookkeeping on the record at hand
    \* one string table
    strtab,     \* the table: [created, maxEntries, userDataFixed, ..., db]
    stcalls,    \* number of deltas applied (the creating one included)
    sterr,      \* the exception that ended an update, "" if none
    stkeys,     \* update()'s key history as it stood when it returned
    stall,      \* every key read by any delta, in reading order
    stlog,      \* the entries the last delta decoded and what storing did
    \* one call of entity::readHeader
    hdr,        \* [pc, n, from, id, bytes, res]: the position, id and stream of
                \* the n-th call, and what it returned
    \* one call of parser::flattenSendtables
    flt,        \* [pc, n, tbls, res, status]: the class infos handled, the send
                \* tables and flat tables, the REPLAY_FLATTABLES events sent
    \* one "read name" step of stringtable::update
    nam,        \* [pc, full, keys, bytes, from, res]: the delta's first bit, the
                \* key history, the stream and position, and what was read
    \* one handlersub of the handler
    hnd,        \* [pc, conv, cb, obj, reg, last]: the callback and object maps,
                \* the callbacks registered per id, and the last forward
    \* one bitstream and the calls made on it
    bs,         \* [pc, d, pos, op, arg, from, res, twin]: the stream, its
                \* position, the last call, where it started and what it returned
    \* one monitor, its queue and its worker thread
    mon,
    \* one replay session: open(), read() and handle()
    run,
    \* one call of parser::forwardMessageContainer
    net

harnessVars == <<stream, pos, hprop, hpc, cur, skipped, decoded>>

parserVars == <<impl, set, callbacks, sendtables, clist, maxClasses, flattables,
                baseline, entities, oob, delta, epc, err, rec, events, hist>>

tableVars == <<strtab, stcalls, sterr, stkeys, stall, stlog>>

headerVars == <<hdr>>

flattenVars == <<flt>>

nameVars == <<nam>>

handlerVars == <<hnd>>

streamVars == <<bs>>

monitorVars == <<mon>>

runVars == <<run>>

netVars == <<net>>

vars == <<harnessVars, parserVars, tableVars, headerVars, flattenVars,
    nameVars, handlerVars, streamVars, monitorVars, runVars, netVars>>

nonHarnessVars == <<parserVars, tableVars, headerVars, flattenVars, nameVars,
    handlerVars, streamVars, monitorVars, runVars, netVars>>

nonParserVars == <<harnessVars, tableVars, headerVars, flattenVars, nameVars,
    handlerVars, streamVars, monitorVars, runVars, netVars>>

nonTableVars == <<harnessVars, parserVars, headerVars, flattenVars, nameVars,
    handlerVars, streamVars, monitorVars, runVars, netVars>>

nonHeaderVars == <<harnessVars, parserVars, tableVars, flattenVars, nameVars,
    handlerVars, streamVars, monitorVars, runVars, netVars>>

nonFlattenVars == <<harnessVars, parserVars, tableVars, headerVars, nameVars,
    handlerVars, streamVars, monitorVars, runVars, netVars>>

nonNameVars == <<harnessVars, parserVars, tableVars, headerVars, flattenVars,
    handlerVars, streamVars, monitorVars, runVars, netVars>>

nonHandlerVars == <<harnessVars, parserVars, tableVars, headerVars,
    flattenVars, nameVars, streamVars, monitorVars, runVars, netVars>>

nonStreamVars == <<harnessVars, parserVars, tableVars, headerVars,
    flattenVars, nameVars, handlerVars, monitorVars, runVars, netVars>>

nonMonitorVars == <<harnessVars, parserVars, tableVars, headerVars,
    flattenVars, nameVars, handlerVars, streamVars, runVars, netVars>>

nonRunVars == <<harnessVars, parserVars, tableVars, headerVars, flattenVars,
    nameVars, handlerVars, streamVars, monitorVars, netVars>>

nonNetVars == <<harnessVars, parserVars, tableVars, headerVars, flattenVars,
    nameVars, handlerVars, streamVars, monitorVars, runVars>>

\* ------------------------------------------------------------------------
\* The skip harness of property::update (#ifdef TEST_SKIPPING): skip the
\* property, seek back by what the skip advanced, decode, compare.
\* ------------------------------------------------------------------------

\* Byte values the buffers are filled with: no bit, the second bit only, all.
ByteVals == {0, 2, 255}

RECURSIVE BytesOfLen(_)
BytesOfLen(n) ==
    IF n = 0 THEN {<<>>}
    ELSE {Append(b, v) : b \in BytesOfLen(n - 1), v \in ByteVals}

HarnessBuffers == UNION {BytesOfLen(n) : n \in 1..MaxBytes}

TICK == "ENCODED_AGAINST_TICKCOUNT"

HarnessProps ==
    { sendprop("T_Int", {}, 3),
      sendprop("T_Int", {"UNSIGNED"}, 7),
      sendprop("T_Int", {TICK}, 0),
      sendprop("T_Int", {TICK, "UNSIGNED"}, 0),
      sendprop("T_Int64", {}, 36),
      sendprop("T_Int64", {"UNSIGNED"}, 40),
      sendprop("T_Int64", {TICK}, 0),
      sendprop("T_Int64", {TICK, "UNSIGNED"}, 0),
      sendprop("T_Float", {}, 6),
      sendprop("T_Float", {"COORD"}, 0),
      sendprop("T_Float", {"COORD", "NOSCALE"}, 0),
      sendprop("T_Float", {"COORD_MP"}, 0),
      sendprop("T_Float", {"COORD_MP", "COORD_MP_LOWPRECISION"}, 0),
      sendprop("T_Float", {"COORD_MP", "COORD_MP_INTEGRAL"}, 0),
      sendprop("T_Float", {"COORD_MP", "COORD_MP_INTEGRAL", "COORD_MP_LOWPRECISION"}, 0),
      sendprop("T_Float", {"NOSCALE"}, 0),
      sendprop("T_Float", {"NORMAL"}, 0),
      sendprop("T_Float", {"CELL_COORD"}, 4),
      sendprop("T_Float", {"CELL_COORD", "CELL_COORD_LOWPRECISION"}, 4),
      sendprop("T_Float", {"CELL_COORD_INTEGRAL"}, 4),
      sendprop("T_Vector", {}, 6),
      sendprop("T_Vector", {"NORMAL"}, 0),
      sendprop("T_Vector", {"COORD"}, 0),
      sendprop("T_VectorXY", {}, 6),
      sendprop("T_VectorXY", {"COORD_MP", "COORD_MP_INTEGRAL"}, 0),
      sendprop("T_String", {}, 0),
      arrayprop(2, sendprop("T_Int", {}, 3)),
      arrayprop(3, sendprop("T_String", {}, 0)) }

NoResult == [ok |-> FALSE, err |-> "none", pos |-> 0, val |-> <<>>]

\* ------------------------------------------------------------------------
\* The parser: settings, handler, class list, flat tables, entity store
\* ------------------------------------------------------------------------

DOTA_MAX_ENTITIES == 16383

\* PacketEntities records per replay, headers and tail-sweep ids per record
MaxRecords == 2
MaxHeaders == 2
MaxSweep == 1

EmptyMap == <<>>

Put(m, k, v) == [x \in (DOMAIN m) \cup {k} |-> IF x = k THEN v ELSE m[x]]

Del(m, k) == [x \in (DOMAIN m) \ {k} |-> m[x]]

NoNote ==
    [type |-> "none", id |-> -1, cls |-> -1, table |-> "", flat |-> "", n |-> 0,
     fields |-> <<>>, skipped |-> FALSE, subscribed |-> FALSE, wasInit |-> FALSE,
     flatOob |-> FALSE]

NoHist ==
    [live0 |-> 0, creates |-> 0, deletes |-> 0, fresh |-> 0, gone |-> 0,
     accessed |-> {}, last |-> NoNote, trail |-> <<>>]

NoRecord ==
    [count |-> 0, updated_entries |-> 0, is_delta |-> FALSE, i |-> 0, eId |-> -1,
     swept |-> 0]

DefaultSettings ==
    [skip_unsubscribed_entities |-> FALSE, skip_entities |-> {},
     track_entities |-> FALSE, forward_entities |-> TRUE]

\* The state after parser::parser(s, stream), before any message.
ParserNew ==
    /\ callbacks = {}
    /\ sendtables = <<>>
    /\ clist = EmptyMap
    /\ maxClasses = 0
    /\ flattables = <<>>
    /\ baseline = [present |-> FALSE, entries |-> EmptyMap]
    /\ entities = EmptyMap
    /\ oob = EmptyMap
    /\ delta = [entity_id |-> -1, entity_fields |-> <<>>]
    /\ epc = "new"
    /\ err = ""
    /\ rec = NoRecord
    /\ events = <<>>
    /\ hist = NoHist

ParserIdle ==
    /\ impl = "parser.cpp"
    /\ set = DefaultSettings
    /\ ParserNew

\* No string table yet.
TableIdle ==
    /\ strtab = [created |-> FALSE, maxEntries |-> 0, userDataFixed |-> FALSE,
                 userDataSize |-> 0, userDataSizeBits |-> 0, db |-> <<>>]
    /\ stcalls = 0
    /\ sterr = ""
    /\ stkeys = <<>>
    /\ stall = <<>>
    /\ stlog = <<>>

\* No header is being read, no send tables are being flattened.
HeaderIdle ==
    hdr = [pc |-> "idle", n |-> 0, from |-> 0, id |-> <<>>, bytes |-> <<>>, res |-> <<>>]

FlattenIdle == flt = [pc |-> "idle", n |-> 0, tbls |-> <<>>, res |-> <<>>, status |-> 0]

\* No name is being read.
NameIdle ==
    nam = [pc |-> "idle", full |-> 0, keys |-> <<>>, bytes |-> <<>>, from |-> 0,
           res |-> <<>>]

\* No handlersub is exercised.
HandlerIdle ==
    hnd = [pc |-> "idle", conv |-> FALSE, cb |-> <<>>, obj |-> <<>>, reg |-> <<>>,
           last |-> <<>>]

\* No bitstream is exercised.
StreamIdle ==
    bs = [pc |-> "idle", d |-> bitstream(<<>>), pos |-> 0, op |-> "", arg |-> <<>>,
          from |-> 0, res |-> <<>>, twin |-> <<>>]

\* No monitor is exercised.
MonitorIdle ==
    mon = [pc |-> "idle", finish |-> "uninitialized", q |-> <<>>, worker |-> "none",
           item |-> "", submitted |-> <<>>, ran |-> <<>>]

\* No replay session is exercised.
RunIdle ==
    run = [pc |-> "idle", impl |-> "", forward_dem |-> FALSE, parse_entities |-> FALSE,
           msgs |-> <<>>, events |-> <<>>]

\* No message container is demultiplexed.
NetIdle ==
    net = [pc |-> "idle", n |-> 0, mem |-> <<>>, good |-> TRUE, off |-> 0, size |-> 0,
           err |-> "", reads |-> {}, out |-> <<>>]

HarnessIdle ==
    /\ stream = bitstream(<<>>)
    /\ pos = 0
    /\ hprop = sendprop("T_Int", {}, 1)
    /\ hpc = "idle"
    /\ cur = 0
    /\ skipped = NoResult
    /\ decoded = NoResult

HarnessInit ==
    /\ \E b \in HarnessBuffers : stream = bitstream(b)
    /\ pos \in 0..MaxStart
    /\ hprop \in HarnessProps
    /\ hpc = "start"
    /\ cur = pos
    /\ skipped = NoResult
    /\ decoded = NoResult

\* cur = stream.position(); property::skip(stream, prop);
HarnessSkip ==
    /\ hpc = "start"
    /\ skipped' = property_skip(stream, pos, hprop)
    /\ pos' = skipped'.pos
    /\ hpc' = "skipped"
    /\ UNCHANGED <<stream, hprop, cur, decoded>>
    /\ UNCHANGED nonHarnessVars

\* diff1 = stream.position() - cur; stream.seekBackward(diff1);
HarnessRewind ==
    /\ hpc = "skipped"
    /\ pos' = seekBackward(pos, pos - cur)
    /\ hpc' = "rewound"
    /\ UNCHANGED <<stream, hprop, cur, skipped, decoded>>
    /\ UNCHANGED nonHarnessVars

\* switch (prop->getType()) { ... }: the decode
HarnessDecode ==
    /\ hpc = "rewound"
    /\ decoded' = property_create(stream, pos, hprop)
    /\ pos' = decoded'.pos
    /\ hpc' = "decoded"
    /\ UNCHANGED <<stream, hprop, cur, skipped>>
    /\ UNCHANGED nonHarnessVars

HarnessNext == HarnessSkip \/ HarnessRewind \/ HarnessDecode

\* Only the property harness runs: the parser and the string table stay as built.
InitProp ==
    HarnessInit /\ ParserIdle /\ TableIdle /\ HeaderIdle /\ FlattenIdle /\ NameIdle /\
    HandlerIdle /\ StreamIdle /\ MonitorIdle /\ RunIdle /\ NetIdle

SpecProp == InitProp /\ [][HarnessNext]_vars

\* ------------------------------------------------------------------------
\* C1: property skip started at the same position leaves the bitstream
\* position exactly where property decode leaves it, for every SendProp type
\* and flag combination and every content on which decoding succeeds.
\* ------------------------------------------------------------------------
C1_SkipEndsWhereDecodeEnds ==
    (hpc = "decoded" /\ decoded.ok) => (skipped.ok /\ skipped.pos = decoded.pos)

\* ------------------------------------------------------------------------
\* The replay's prologue: server info, send tables, class info, baseline
\* ------------------------------------------------------------------------

\* The settings the parser is constructed with.
SettingsChoices ==
    { DefaultSettings,
      [skip_unsubscribed_entities |-> TRUE, skip_entities |-> {},
       track_entities |-> FALSE, forward_entities |-> FALSE],
      [skip_unsubscribed_entities |-> FALSE, skip_entities |-> {1},
       track_entities |-> TRUE, forward_entities |-> FALSE] }

Impls == {"parser.cpp", "parser.hpp"}

\* CSVCMsg_SendTable messages of the replay.
SendTableMsgs ==
    { [net_table_name |-> "DT_A",
       props |-> << sendprop_t("a1", "T_Int", {}, 128, ""),
                    sendprop_t("a2", "T_Int", {"CHANGES_OFTEN"}, 128, "") >>],
      [net_table_name |-> "DT_B",
       props |-> << sendprop_t("b1", "T_Int", {}, 128, "") >>] }

\* CDemoClassInfo of the replay: class_id, table_name, network_name.
ClassInfoMsg ==
    << [class_id |-> 0, table_name |-> "DT_A", network_name |-> "CA"],
       [class_id |-> 1, table_name |-> "DT_B", network_name |-> "CB"] >>

\* CSVCMsg_ServerInfo.max_classes
ServerMaxClasses == 2

\* Entries of the "instancebaseline" table: class id -> field ids it sets.
InstanceBaseline == (0 :> <<0>>) @@ (1 :> <<>>)

\* Callbacks the application registers.
CallbackTargets == { <<"msgEntity", 0>> }

RECURSIVE CeilLog2(_)
CeilLog2(n) == IF n <= 1 THEN 0 ELSE 1 + CeilLog2((n + 1) \div 2)

\* classBits = std::ceil(log2(max_classes))
classBits == CeilLog2(maxClasses)

ParserInit ==
    /\ impl \in Impls
    /\ set \in SettingsChoices
    /\ ParserNew

handleServerInfo ==
    /\ epc = "new"
    /\ maxClasses' = ServerMaxClasses
    /\ epc' = "tables"
    /\ UNCHANGED <<impl, set, callbacks, sendtables, clist, flattables, baseline,
                   entities, oob, delta, err, rec, events, hist>>
    /\ UNCHANGED nonParserVars

\* A replay sends each of its send tables once, in any order.
handleSendTable(m) ==
    /\ epc = "tables"
    /\ \A i \in 1..Len(sendtables) : sendtables[i].name # m.net_table_name
    /\ sendtables' = Append(sendtables, sendtable(m))
    /\ UNCHANGED <<impl, set, callbacks, clist, maxClasses, flattables, baseline,
                   entities, oob, delta, epc, err, rec, events, hist>>
    /\ UNCHANGED nonParserVars

\* entity_list::set for every class of the message, from the i-th on
RECURSIVE clist_set(_, _, _)
clist_set(cl, classes, i) ==
    IF i > Len(classes) THEN [ok |-> TRUE, err |-> "", clist |-> cl]
    ELSE LET c == classes[i]
         IN  IF c.class_id >= maxClasses
             THEN [ok |-> FALSE, err |-> "entityUnkownClassIndex", clist |-> cl]
             ELSE clist_set(IF c.class_id \in DOMAIN cl THEN cl
                            ELSE Put(cl, c.class_id,
                                     [id |-> c.class_id, name |-> c.table_name,
                                      networkName |-> c.network_name]),
                            classes, i + 1)

forward(family, id, data) ==
    << [family |-> family, id |-> id, data |-> data,
        delivered |-> <<family, id>> \in callbacks] >>

\* Class info follows the send tables.
handleClasses ==
    /\ epc = "tables"
    /\ Len(sendtables) = Cardinality(SendTableMsgs)
    /\ LET Done(c, f) ==
               /\ clist' = c.clist
               /\ sendtables' = IF c.ok THEN f.tbls ELSE sendtables
               /\ flattables' = IF c.ok THEN f.flattables ELSE flattables
               /\ epc' = IF c.ok /\ f.ok THEN "strings" ELSE "failed"
               /\ err' = IF ~c.ok THEN c.err ELSE f.err
               /\ events' = IF c.ok /\ f.ok
                            THEN events \o forward("msgStatus", "REPLAY_FLATTABLES", <<>>)
                            ELSE events
       IN  Done(clist_set(clist, ClassInfoMsg, 1),
                flattenSendtables(sendtables, flattables))
    /\ UNCHANGED <<impl, set, callbacks, maxClasses, baseline, entities, oob, delta,
                   rec, hist>>
    /\ UNCHANGED nonParserVars

\* The "instancebaseline" string table is created and filled.
handleCreateStringtable ==
    /\ epc = "strings"
    /\ baseline' = [present |-> TRUE, entries |-> InstanceBaseline]
    /\ epc' = "ready"
    /\ UNCHANGED <<impl, set, callbacks, sendtables, clist, maxClasses, flattables,
                   entities, oob, delta, err, rec, events, hist>>
    /\ UNCHANGED nonParserVars

\* handler.registerCallback, between two messages
registerCallback(t) ==
    /\ epc = "ready"
    /\ t \notin callbacks
    /\ callbacks' = callbacks \cup {t}
    /\ UNCHANGED <<impl, set, sendtables, clist, maxClasses, flattables, baseline,
                   entities, oob, delta, epc, err, rec, events, hist>>
    /\ UNCHANGED nonParserVars
\* ------------------------------------------------------------------------
\* Entities
\* ------------------------------------------------------------------------

NoProperty == [initialized |-> FALSE, name |-> "", value |-> ""]

\* entity::entity(id, cls, flat); f is the position of flat in flattables
entity(id, cls, f) ==
    [id |-> id, cls |-> cls, flat |-> f,
     properties |-> [i \in 1..(Len(flattables[f].properties) + 1) |-> NoProperty],
     currentState |-> "created"]

\* entity::update(id, cls, flat)
entity_update(e, id, cls, f) == [e EXCEPT !.id = id, !.cls = cls, !.flat = f]

\* entity::setState
setState(e, s) ==
    [e EXCEPT !.currentState = s, !.id = IF s = "deleted" THEN -1 ELSE @]

\* entity_list::get: operator[] of the map default-constructs a missing entry
clist_get(index) ==
    IF index >= maxClasses
    THEN [ok |-> FALSE, err |-> "entityUnkownClassIndex", val |-> <<>>, clist |-> clist]
    ELSE IF index \in DOMAIN clist
    THEN [ok |-> TRUE, err |-> "", val |-> clist[index], clist |-> clist]
    ELSE LET d == [id |-> 0, name |-> "", networkName |-> ""]
         IN  [ok |-> TRUE, err |-> "", val |-> d, clist |-> Put(clist, index, d)]

\* parser.cpp: getFlattable(const uint32_t tbl)
getFlattable_cpp(tbl) ==
    IF Len(flattables) <= tbl
    THEN [ok |-> FALSE, err |-> "sendtableUnkownTable", val |-> 0]
    ELSE [ok |-> TRUE, err |-> "", val |-> tbl + 1]

\* parser.hpp: getFlattable(const std::string &tbl); emplace kept the first
\* flat table of a name
getFlattable_hpp(tbl) ==
    IF \E i \in 1..Len(flattables) : flattables[i].name = tbl
    THEN [ok |-> TRUE, err |-> "",
          val |-> CHOOSE i \in 1..Len(flattables) :
                    /\ flattables[i].name = tbl
                    /\ \A j \in 1..(i - 1) : flattables[j].name # tbl]
    ELSE [ok |-> FALSE, err |-> "sendtableUnkownTable", val |-> 0]

getFlattable(classId, eClass) ==
    IF impl = "parser.cpp" THEN getFlattable_cpp(classId)
    ELSE getFlattable_hpp(eClass.name)

hasCallback(family, id) == <<family, id>> \in callbacks

\* parser.cpp: parser::isSkipped
isSkipped_cpp(e) ==
    LET eId == e.cls.id
        skipU == set.skip_unsubscribed_entities /\ ~hasCallback("msgEntity", eId)
        skipE == IF set.skip_entities = {} THEN FALSE ELSE eId \in set.skip_entities
    IN  skipU \/ skipE

\* parser.hpp: parser::isSkipped
isSkipped_hpp(e) ==
    LET eId == e.cls.id
        skipU == set.skip_unsubscribed_entities \/ ~hasCallback("msgEntity", eId)
        skipE == IF set.skip_entities = {} THEN FALSE ELSE eId \in set.skip_entities
    IN  skipU \/ skipE

isSkipped(e) == IF impl = "parser.cpp" THEN isSkipped_cpp(e) ELSE isSkipped_hpp(e)

\* entity::updateFromBitstream, the loop over the field ids read: src names
\* the stream the values come from.  Reading flat->properties[it] behind the
\* end of the vector is undefined: ub picks a crash or a garbage descriptor.
RECURSIVE updateFromBitstream(_, _, _, _, _, _)
updateFromBitstream(e, fields, i, src, ub, fo) ==
    IF i > Len(fields) THEN [ok |-> TRUE, err |-> "", ent |-> e, flatOob |-> fo]
    ELSE LET it == fields[i]
             flat == flattables[e.flat]
         IN  IF it >= Len(e.properties)
             THEN [ok |-> FALSE, err |-> "entityUnkownSendprop", ent |-> e,
                   flatOob |-> fo]
             ELSE IF e.properties[it + 1].initialized
             THEN updateFromBitstream([e EXCEPT !.properties[it + 1].value = src],
                                      fields, i + 1, src, ub, fo)
             ELSE IF it >= Len(flat.properties)
             THEN IF ub = "crash"
                  THEN [ok |-> FALSE, err |-> "undefined", ent |-> e, flatOob |-> TRUE]
                  ELSE updateFromBitstream(
                           [e EXCEPT !.properties[it + 1] =
                               [initialized |-> TRUE, name |-> "garbage", value |-> src]],
                           fields, i + 1, src, ub, TRUE)
             ELSE updateFromBitstream(
                      [e EXCEPT !.properties[it + 1] =
                          [initialized |-> TRUE, name |-> flat.properties[it + 1].name,
                           value |-> src]],
                      fields, i + 1, src, ub, fo)

\* entity::skip, the loop over the field ids read
RECURSIVE entity_skip(_, _, _, _, _)
entity_skip(e, fields, i, ub, fo) ==
    IF i > Len(fields) THEN [ok |-> TRUE, err |-> "", flatOob |-> fo]
    ELSE LET it == fields[i]
         IN  IF it >= Len(e.properties)
             THEN [ok |-> FALSE, err |-> "entityUnkownSendprop", flatOob |-> fo]
             ELSE IF it >= Len(flattables[e.flat].properties)
             THEN IF ub = "crash"
                  THEN [ok |-> FALSE, err |-> "undefined", flatOob |-> TRUE]
                  ELSE entity_skip(e, fields, i + 1, ub, TRUE)
             ELSE entity_skip(e, fields, i + 1, ub, fo)

\* uint32_t arithmetic of the header: -1 stands for 0xFFFFFFFF
AddId(eId, nId) == eId + nId + 1

U32Gt(a, b) == a < 0 \/ a > b

HeaderDone(m, cl, ev, d, note) ==
    [ok |-> TRUE, err |-> "", m |-> m, clist |-> cl, events |-> ev, delta |-> d,
     note |-> note]

HeaderFail(e, m, cl, ev, d, note) ==
    [ok |-> FALSE, err |-> e, m |-> m, clist |-> cl, events |-> ev, delta |-> d,
     note |-> note]

\* updateFromBitstream(stream, delta): parser.cpp passes the delta, which is
\* allocated only with track_entities
DeltaAfter(fields) ==
    IF impl = "parser.cpp" /\ set.track_entities
    THEN [delta EXCEPT !.entity_fields = fields] ELSE delta

NoteOf(type, eId, e, fields, sk, wasInit, fo) ==
    [type |-> type, id |-> eId, cls |-> e.cls.id, table |-> e.cls.name,
     flat |-> flattables[e.flat].name, n |-> Len(flattables[e.flat].properties),
     fields |-> fields, skipped |-> sk,
     subscribed |-> hasCallback("msgEntity", e.cls.id), wasInit |-> wasInit,
     flatOob |-> fo]
\* A create that reads the record's own fields before the class baseline.
CaseCreated_deltaFirst(m, eId, classId, fields, ub) ==
    LET c == clist_get(classId)
        f == getFlattable(classId, c.val)
        wasInit == eId \in DOMAIN m
        e0 == IF ~wasInit THEN entity(eId, c.val, f.val)
              ELSE setState(entity_update(m[eId], eId, c.val, f.val), "overwritten")
        sk == isSkipped(e0)
        s == entity_skip(e0, fields, 1, ub, FALSE)
        b == updateFromBitstream(e0, fields, 1, "delta", ub, FALSE)
        u == updateFromBitstream(b.ent, baseline.entries[classId], 1, "baseline", ub,
                                 b.flatOob)
        note(fo) == NoteOf("created", eId, e0, fields, sk, wasInit, fo)
    IN  IF ~c.ok THEN HeaderFail(c.err, m, c.clist, <<>>, delta, NoNote)
        ELSE IF ~f.ok THEN HeaderFail(f.err, m, c.clist, <<>>, delta, NoNote)
        ELSE IF sk
        THEN IF s.ok THEN HeaderDone(Put(m, eId, e0), c.clist, <<>>, delta, note(s.flatOob))
             ELSE HeaderFail(s.err, Put(m, eId, e0), c.clist, <<>>, delta, note(s.flatOob))
        ELSE IF classId \notin DOMAIN baseline.entries
        THEN HeaderFail("stringtableUnkownKey", Put(m, eId, e0), c.clist, <<>>, delta,
                        note(FALSE))
        ELSE IF ~b.ok
        THEN HeaderFail(b.err, Put(m, eId, b.ent), c.clist, <<>>, delta, note(b.flatOob))
        ELSE IF ~u.ok
        THEN HeaderFail(u.err, Put(m, eId, u.ent), c.clist, <<>>, delta, note(u.flatOob))
        ELSE HeaderDone(Put(m, eId, u.ent), c.clist,
                        forward("msgEntity", u.ent.cls.id, u.ent),
                        DeltaAfter(fields), note(u.flatOob))

\* case entity::state_created of handleEntity, on the slot map m
CaseCreated(m, eId, classId, fields, ub) ==
    LET c == clist_get(classId)
        f == getFlattable(classId, c.val)
        wasInit == eId \in DOMAIN m
        e0 == IF ~wasInit THEN entity(eId, c.val, f.val)
              ELSE setState(entity_update(m[eId], eId, c.val, f.val), "overwritten")
        sk == isSkipped(e0)
        s == entity_skip(e0, fields, 1, ub, FALSE)
        b == updateFromBitstream(e0, baseline.entries[classId], 1, "baseline", ub, FALSE)
        u == updateFromBitstream(b.ent, fields, 1, "delta", ub, b.flatOob)
        note(fo) == NoteOf("created", eId, e0, fields, sk, wasInit, fo)
    IN  IF ~c.ok THEN HeaderFail(c.err, m, c.clist, <<>>, delta, NoNote)
        ELSE IF ~f.ok THEN HeaderFail(f.err, m, c.clist, <<>>, delta, NoNote)
        ELSE IF sk
        THEN IF s.ok THEN HeaderDone(Put(m, eId, e0), c.clist, <<>>, delta, note(s.flatOob))
             ELSE HeaderFail(s.err, Put(m, eId, e0), c.clist, <<>>, delta, note(s.flatOob))
        ELSE IF classId \notin DOMAIN baseline.entries
        THEN HeaderFail("stringtableUnkownKey", Put(m, eId, e0), c.clist, <<>>, delta,
                        note(FALSE))
        ELSE IF ~b.ok
        THEN HeaderFail(b.err, Put(m, eId, b.ent), c.clist, <<>>, delta, note(b.flatOob))
        ELSE IF ~u.ok
        THEN HeaderFail(u.err, Put(m, eId, u.ent), c.clist, <<>>, delta, note(u.flatOob))
        ELSE HeaderDone(Put(m, eId, u.ent), c.clist,
                        forward("msgEntity", u.ent.cls.id, u.ent),
                        DeltaAfter(fields), note(u.flatOob))

\* An update that decodes and dispatches without setState(state_updated).
CaseUpdated_keepsState(m, eId, fields, ub) ==
    LET ent == m[eId]
        sk == isSkipped(ent)
        s == entity_skip(ent, fields, 1, ub, FALSE)
        u == updateFromBitstream(ent, fields, 1, "delta", ub, FALSE)
        e1 == u.ent
        note(fo) == NoteOf("updated", eId, ent, fields, sk, TRUE, fo)
    IN  IF eId \notin DOMAIN m
        THEN HeaderFail("aliceInvalidId", m, clist, <<>>, delta, NoNote)
        ELSE IF sk
        THEN IF s.ok THEN HeaderDone(m, clist, <<>>, delta, note(s.flatOob))
             ELSE HeaderFail(s.err, m, clist, <<>>, delta, note(s.flatOob))
        ELSE IF ~u.ok
        THEN HeaderFail(u.err, Put(m, eId, u.ent), clist, <<>>, delta, note(u.flatOob))
        ELSE HeaderDone(Put(m, eId, e1), clist, forward("msgEntity", e1.cls.id, e1),
                        DeltaAfter(fields), note(u.flatOob))

\* case entity::state_updated
CaseUpdated(m, eId, fields, ub) ==
    LET ent == m[eId]
        sk == isSkipped(ent)
        s == entity_skip(ent, fields, 1, ub, FALSE)
        u == updateFromBitstream(ent, fields, 1, "delta", ub, FALSE)
        e1 == setState(u.ent, "updated")
        note(fo) == NoteOf("updated", eId, ent, fields, sk, TRUE, fo)
    IN  IF eId \notin DOMAIN m
        THEN HeaderFail("aliceInvalidId", m, clist, <<>>, delta, NoNote)
        ELSE IF sk
        THEN IF s.ok THEN HeaderDone(m, clist, <<>>, delta, note(s.flatOob))
             ELSE HeaderFail(s.err, m, clist, <<>>, delta, note(s.flatOob))
        ELSE IF ~u.ok
        THEN HeaderFail(u.err, Put(m, eId, u.ent), clist, <<>>, delta, note(u.flatOob))
        ELSE HeaderDone(Put(m, eId, e1), clist, forward("msgEntity", e1.cls.id, e1),
                        DeltaAfter(fields), note(u.flatOob))

\* A deletion that dispatches but leaves the slot occupied.
DeleteEntity_keepsSlot(m, eId, type, at) ==
    LET ent == m[eId]
        sk == isSkipped(ent)
        e1 == setState(ent, "deleted")
    IN  HeaderDone(m, clist, IF sk THEN <<>> ELSE forward("msgEntity", ent.cls.id, e1),
                   delta, NoteOf(type, eId, ent, <<>>, sk, TRUE, FALSE))

\* The deletion shared by case entity::state_deleted and the tail sweep:
\* setState and forward unless skipped, then the slot is cleared.  at is
\* TRUE where the slot is cleared through entities.at(eId), which checks
\* the range.
DeleteEntity(m, eId, type, at) ==
    LET ent == m[eId]
        sk == isSkipped(ent)
        e1 == setState(ent, "deleted")
        ev == IF sk THEN <<>> ELSE forward("msgEntity", ent.cls.id, e1)
        note == NoteOf(type, eId, ent, <<>>, sk, TRUE, FALSE)
    IN  IF at /\ eId >= DOTA_MAX_ENTITIES
        THEN HeaderFail("out_of_range", IF sk THEN m ELSE Put(m, eId, e1), clist, ev,
                        delta, note)
        ELSE HeaderDone(Del(m, eId), clist, ev, delta, note)

\* A delete that passes over an empty slot without an error.
CaseDeleted_ignoresMissing(m, eId) ==
    IF eId \in DOMAIN m THEN DeleteEntity(m, eId, "deleted", impl = "parser.cpp")
    ELSE HeaderDone(m, clist, <<>>, delta, NoNote)

\* case entity::state_deleted
CaseDeleted(m, eId) ==
    IF eId \in DOMAIN m THEN DeleteEntity(m, eId, "deleted", impl = "parser.cpp")
    ELSE HeaderFail("aliceInvalidId", m, clist, <<>>, delta, NoNote)

\* switch (eType)
HeaderSwitch(m, eId, eType, classId, fields, ub) ==
    CASE eType = "created" -> CaseCreated(m, eId, classId, fields, ub)
      [] eType = "updated" -> CaseUpdated(m, eId, fields, ub)
      [] eType = "deleted" -> CaseDeleted(m, eId)
      [] OTHER -> HeaderDone(m, clist, <<>>, delta, NoNote)

\* "forward entity delta?" of parser.cpp, behind the switch
TrackDelta(r, eId) ==
    IF r.ok /\ impl = "parser.cpp" /\ set.track_entities /\ eId \in DOMAIN r.m
    THEN LET d == [r.delta EXCEPT !.entity_id = eId]
         IN  [r EXCEPT !.delta = d,
                       !.events = @ \o forward("msgEntityDelta", r.m[eId].cls.id, d)]
    ELSE r

\* One pass of the header loop behind readHeader.  parser.cpp checks the id
\* and binds entities[eId] in front of the switch, parser.hpp inside the
\* cases.  entities[DOTA_MAX_ENTITIES] lies behind the vector: ubSlot picks
\* a crash or memory that acts as one more slot.
HeaderPass(eId, eType, classId, fields, ubSlot, ub) ==
    LET checked == impl = "parser.cpp" \/ eType \in {"created", "updated", "deleted"}
        inStore == eId >= 0 /\ eId < DOTA_MAX_ENTITIES
        m == IF inStore THEN entities ELSE oob
        r == TrackDelta(HeaderSwitch(m, eId, eType, classId, fields, ub), eId)
        out(x, acc) == [ok |-> x.ok, err |-> x.err,
                        entities |-> IF inStore THEN x.m ELSE entities,
                        oob |-> IF inStore THEN oob ELSE x.m,
                        clist |-> x.clist, events |-> x.events, delta |-> x.delta,
                        note |-> x.note, accessed |-> acc, inStore |-> inStore]
    IN  IF ~checked
        THEN out(HeaderDone(m, clist, <<>>, delta, NoNote), {})
        ELSE IF U32Gt(eId, DOTA_MAX_ENTITIES)
        THEN out(HeaderFail("entityIdToLarge", m, clist, <<>>, delta, NoNote), {})
        ELSE IF ~inStore /\ ubSlot = "crash"
        THEN out(HeaderFail("undefined", m, clist, <<>>, delta, NoNote), {eId})
        ELSE out(r, {eId})
\* ------------------------------------------------------------------------
\* parser::handleEntity, one PacketEntities record: the header loop, then
\* the tail sweep of a delta record
\* ------------------------------------------------------------------------

\* nId of readHeader: the next id, or a jump behind the store
HeaderIncrements == {0, DOTA_MAX_ENTITIES}

HeaderTypes == {"created", "updated", "deleted", "default"}

\* Field id lists a header's update carries
FieldLists == {<<0>>, <<2>>}

\* 11-bit ids of the tail sweep
SweepIds == {0, 1}

UbChoices == {"crash", "garbage"}

\* stream.read(classBits)
ClassIds == 0..(Pow2(classBits) - 1)

Live == Cardinality(DOMAIN entities)

\* A record that runs the tail sweep whether or not it is a delta.
AfterHeaders_sweepsAlways(r) ==
    IF r.i < r.updated_entries THEN "headers" ELSE "sweep"

\* Behind the headers of a record: the tail sweep of a delta, or the end.
AfterHeaders(r) ==
    IF r.i < r.updated_entries THEN "headers"
    ELSE IF r.is_delta THEN "sweep" ELSE "ready"

\* Entry of handleEntity: the baseline table is looked up, eId = -1.
BeginRecord(updated_entries, is_delta) ==
    /\ epc \in {"strings", "ready"}
    /\ rec.count < MaxRecords
    /\ LET r == [count |-> rec.count + 1, updated_entries |-> updated_entries,
                 is_delta |-> is_delta, i |-> 0, eId |-> -1, swept |-> 0]
       IN  /\ rec' = r
           /\ epc' = IF baseline.present THEN AfterHeaders(r) ELSE "failed"
           /\ err' = IF baseline.present THEN "" ELSE "aliceBaselineNotFound"
    /\ events' = <<>>
    /\ hist' = [NoHist EXCEPT !.live0 = Live, !.trail = hist.trail]
    /\ UNCHANGED <<impl, set, callbacks, sendtables, clist, maxClasses, flattables,
                   baseline, entities, oob, delta>>
    /\ UNCHANGED nonParserVars

\* The entity whose callbacks are followed from its creation on.
TrailId == 0

\* The states the Entity callbacks invoked for evs were handed.
Seen(evs) ==
    LET f == SelectSeq(evs, LAMBDA e : e.family = "msgEntity" /\ e.delivered)
    IN  [k \in 1..Len(f) |-> f[k].data.currentState]

\* The trail of entity TrailId behind a header or sweep entry for eId: what
\* was done to it, whether it was skipped and subscribed, and the states its
\* subscribers saw; a Create on the empty slot starts the trail.
TrailStep(trail, eId, note, evs) ==
    IF eId # TrailId \/ note.type \notin {"created", "updated", "deleted", "swept"}
       \/ note.id # TrailId
    THEN trail
    ELSE LET step == [type |-> note.type, skipped |-> note.skipped,
                      subscribed |-> note.subscribed, seen |-> Seen(evs)]
         IN  IF note.type = "created" /\ ~note.wasInit THEN <<step>>
             ELSE Append(trail, step)

\* One iteration of the loop over updated_entries.
HandleHeader(nId, eType, classId, fields, ubSlot, ub) ==
    /\ epc = "headers"
    /\ rec.i < rec.updated_entries
    /\ LET Done(nrec, r, isCreate, isDelete) ==
               /\ rec' = nrec
               /\ entities' = r.entities
               /\ oob' = r.oob
               /\ clist' = r.clist
               /\ delta' = r.delta
               /\ events' = events \o r.events
               /\ epc' = IF r.ok THEN AfterHeaders(nrec) ELSE "failed"
               /\ err' = r.err
               /\ hist' = [hist EXCEPT
                            !.creates = @ + (IF isCreate THEN 1 ELSE 0),
                            !.deletes = @ + (IF isDelete THEN 1 ELSE 0),
                            !.fresh = @ + (IF isCreate /\ r.inStore /\ ~r.note.wasInit
                                           THEN 1 ELSE 0),
                            !.gone = @ + (IF isDelete /\ r.inStore THEN 1 ELSE 0),
                            !.accessed = @ \cup r.accessed,
                            !.last = r.note,
                            !.trail = TrailStep(@, nrec.eId, r.note, r.events)]
           Pass(eId, r) ==
               Done([rec EXCEPT !.i = @ + 1, !.eId = eId], r,
                    r.ok /\ r.note.type = "created", r.ok /\ r.note.type = "deleted")
           Header(eId) == Pass(eId, HeaderPass(eId, eType, classId, fields, ubSlot, ub))
       IN  Header(AddId(rec.eId, nId))
    /\ UNCHANGED <<impl, set, callbacks, sendtables, maxClasses, flattables, baseline>>
    /\ UNCHANGED nonParserVars

\* while (stream.read(1)) { eId = stream.read(11); ... }
SweepEntry(eId) ==
    /\ epc = "sweep"
    /\ rec.swept < MaxSweep
    /\ LET init == eId \in DOMAIN entities
           r == DeleteEntity(entities, eId, "swept", FALSE)
       IN  /\ entities' = IF init THEN r.m ELSE entities
           /\ events' = IF init THEN events \o r.events ELSE events
           /\ hist' = [hist EXCEPT
                        !.deletes = @ + 1,
                        !.gone = @ + (IF init THEN 1 ELSE 0),
                        !.accessed = @ \cup {eId},
                        !.last = IF init THEN r.note
                                 ELSE [NoNote EXCEPT !.type = "swept", !.id = eId],
                        !.trail = IF init THEN TrailStep(@, eId, r.note, r.events)
                                  ELSE @]
    /\ rec' = [rec EXCEPT !.swept = @ + 1, !.eId = eId]
    /\ UNCHANGED <<impl, set, callbacks, sendtables, clist, maxClasses, flattables,
                   baseline, oob, delta, epc, err>>
    /\ UNCHANGED nonParserVars

\* stream.read(1) returns 0: the record is done
SweepEnd ==
    /\ epc = "sweep"
    /\ epc' = "ready"
    /\ UNCHANGED <<impl, set, callbacks, sendtables, clist, maxClasses, flattables,
                   baseline, entities, oob, delta, err, rec, events, hist>>
    /\ UNCHANGED nonParserVars

\* What a header of type t carries: a class id when it creates, field ids
\* when it creates or updates.
HeaderClassIds(t) == IF t = "created" THEN ClassIds ELSE {0}

HeaderFieldLists(t) == IF t \in {"created", "updated"} THEN FieldLists ELSE {<<>>}

\* Only entities[DOTA_MAX_ENTITIES] is an access behind the vector.
SlotUbChoices(eId) == IF eId = DOTA_MAX_ENTITIES THEN UbChoices ELSE {"garbage"}

handleEntity ==
    \/ \E n \in 0..MaxHeaders, d \in BOOLEAN : BeginRecord(n, d)
    \/ \E nId \in HeaderIncrements, t \in HeaderTypes :
          \E c \in HeaderClassIds(t), f \in HeaderFieldLists(t),
             us \in SlotUbChoices(AddId(rec.eId, nId)), ub \in UbChoices :
               HandleHeader(nId, t, c, f, us, ub)
    \/ \E id \in SweepIds : SweepEntry(id)
    \/ SweepEnd

ParserNext ==
    \/ handleServerInfo
    \/ \E m \in SendTableMsgs : handleSendTable(m)
    \/ handleClasses
    \/ handleCreateStringtable
    \/ \E t \in CallbackTargets : registerCallback(t)
    \/ handleEntity

\* Only the parser runs.
InitParser ==
    ParserInit /\ HarnessIdle /\ TableIdle /\ HeaderIdle /\ FlattenIdle /\ NameIdle /\
    HandlerIdle /\ StreamIdle /\ MonitorIdle /\ RunIdle /\ NetIdle

SpecParser == InitParser /\ [][ParserNext]_vars

\* A record has been processed to its end.
RecordDone == epc = "ready" /\ rec.count > 0
\* The slot map an id addresses: the store, or the memory behind it.
SlotMap(id) == IF id >= 0 /\ id < DOTA_MAX_ENTITIES THEN entities ELSE oob

\* ------------------------------------------------------------------------
\* C2 (as stated): after a PacketEntities record has been processed, the
\* number of initialized slots equals the number before the record plus the
\* number of Create headers minus the number of deletes (Delete headers and
\* tail-sweep ids) of the record.
\* ------------------------------------------------------------------------
C2_LiveIsPreviousPlusCreatesMinusDeletes ==
    RecordDone => Live = hist.live0 + hist.creates - hist.deletes

\* C2 (amended): after a PacketEntities record has been processed, the number
\* of initialized slots equals the number before the record, plus the Create
\* headers that addressed an uninitialized slot of the store, minus the
\* deletes (Delete headers and tail-sweep ids) that addressed an initialized
\* slot of the store.
C2_LiveCountsFreshCreatesAndLiveDeletes ==
    RecordDone => Live = hist.live0 + hist.fresh - hist.gone

\* A record that created anew, overwrote an occupied slot and deleted.
C2_Witness ==
    /\ RecordDone
    /\ hist.fresh > 0
    /\ hist.creates > hist.fresh
    /\ hist.gone > 0

\* ------------------------------------------------------------------------
\* C3: for every initialized entity of the store, after every processed
\* record, properties.len() == flattable.properties.len() + 1 for the
\* entity's current flattable, also when its occupied slot was addressed
\* again by a Create header.
\* ------------------------------------------------------------------------
C3_PropertiesSizedByFlattable ==
    RecordDone =>
        \A id \in DOMAIN entities :
            Len(entities[id].properties)
                = Len(flattables[entities[id].flat].properties) + 1

\* ------------------------------------------------------------------------
\* C4: while an update or skip is applied to an entity whose flattable has n
\* properties, a decoded field id f >= n makes the operation fail with
\* UnknownSendprop, and the flattable is never read at a position f >= n.
\* ------------------------------------------------------------------------
C4_FieldIdsWithinFlattable ==
    /\ ~hist.last.flatOob
    /\ (/\ hist.last.type \in {"created", "updated"}
        /\ \E i \in 1..Len(hist.last.fields) : hist.last.fields[i] >= hist.last.n)
       => (epc = "failed" /\ err = "entityUnkownSendprop")

\* ------------------------------------------------------------------------
\* C5: every entity id decoded from a header and used to access the entity
\* store lies in [0, 16383); a header that decodes to an id >= 16383 fails
\* with EntityIdTooLarge before any slot is read or written.
\* ------------------------------------------------------------------------
C5_EntityIdsWithinStore ==
    /\ \A id \in hist.accessed : id >= 0 /\ id < DOTA_MAX_ENTITIES
    /\ (rec.i > 0 /\ rec.swept = 0 /\ (rec.eId < 0 \/ rec.eId >= DOTA_MAX_ENTITIES))
       => (epc = "failed" /\ err = "entityIdToLarge")

\* ------------------------------------------------------------------------
\* C6: for every Create with class-id c, the flat send table used to size and
\* decode the entity is the one built from the send table whose name is the
\* table name recorded for class c in the class table.
\* ------------------------------------------------------------------------
C6_FlattableOfTheClassTable ==
    hist.last.type = "created" => hist.last.flat = hist.last.table

\* ------------------------------------------------------------------------
\* C9: for an entity of a skipped class, Create, Update and Delete change the
\* slot's occupancy and the entity's state (created/overwritten, updated,
\* deleted) exactly as for a non-skipped class; only decoding and dispatch
\* are suppressed.
\* ------------------------------------------------------------------------
C9_SkippedEntitiesTransitionAlike ==
    (hist.last.skipped /\ epc # "failed") =>
        LET id == hist.last.id
            m == SlotMap(id)
        IN  CASE hist.last.type = "created" ->
                    /\ id \in DOMAIN m
                    /\ m[id].currentState
                         = IF hist.last.wasInit THEN "overwritten" ELSE "created"
              [] hist.last.type = "updated" ->
                    /\ id \in DOMAIN m
                    /\ m[id].currentState = "updated"
              [] OTHER -> id \notin DOMAIN m

\* ------------------------------------------------------------------------
\* C10: an entity is treated as skipped if and only if its class id is in
\* skip_entities, or skip_unsubscribed_entities is enabled and no Entity
\* callback is registered for its class; with skip_unsubscribed_entities
\* disabled, entities of classes without a subscriber are still decoded.
\* ------------------------------------------------------------------------
C10_SkippedIffConfigured ==
    hist.last.cls >= 0 =>
        (hist.last.skipped <=>
            \/ hist.last.cls \in set.skip_entities
            \/ (set.skip_unsubscribed_entities /\ ~hist.last.subscribed))
\* ------------------------------------------------------------------------
\* String tables (stringtable.cpp, multiindex.hpp).  Keys and values are
\* sequences of character codes; db holds the entries [key, index, value]
\* in the order they were inserted.
\* ------------------------------------------------------------------------

STRINGTABLE_KEY_HISTORY == 32
STRINGTABLE_MAX_KEY_SIZE == 1024
STRINGTABLE_MAX_VALUE_SIZE == 16384

\* "anonymous"
KeyAnonymous == <<97, 110, 111, 110, 121, 109, 111, 117, 115>>

\* multiindex::hasKey / hasIndex
hasKey(db, k) == \E i \in 1..Len(db) : db[i].key = k

hasIndex(db, index) == \E i \in 1..Len(db) : db[i].index = index

\* multiindex::set(const Key&, Value&&): the first entry found under the key
multiindex_setKey(db, k, v) ==
    LET i == CHOOSE i \in 1..Len(db) :
                /\ db[i].key = k
                /\ \A j \in 1..(i - 1) : db[j].key # k
    IN  [db EXCEPT ![i].value = v]

\* multiindex::set(const Index&, Value&&)
multiindex_setIndex(db, index, v) ==
    [i \in 1..Len(db) |-> IF db[i].index = index THEN [db[i] EXCEPT !.value = v]
                          ELSE db[i]]

\* multiindex::insert: db.insert() of the container; the index is
\* ordered_unique, so an entry whose index is taken is not inserted
multiindex_insert(db, e) ==
    IF hasIndex(db, e.index) THEN db ELSE Append(db, e)

\* "insert entry" of stringtable::update
StoreEntry(db, k, index, v, hasName, hasValue) ==
    IF hasName /\ hasKey(db, k) THEN multiindex_setKey(db, k, v)
    ELSE IF hasName THEN multiindex_insert(db, [key |-> k, index |-> index, value |-> v])
    ELSE IF hasValue /\ hasIndex(db, index) THEN multiindex_setIndex(db, index, v)
    ELSE multiindex_insert(db, [key |-> KeyAnonymous, index |-> index, value |-> v])

\* std::ceil(log2(maxEntries))
IndexBits(maxEntries) == CeilLog2(maxEntries)

\* A resolution that drops the referenced prefix.
SubstringKey_tailOnly(old, sLength, tail) == tail

\* keys[sIndex].copy(key, sLength, 0) into the zeroed buffer, the tail read
\* to key + sLength, and std::string(key): the buffer up to its first NUL
SubstringKey(old, sLength, tail) ==
    IF Len(old) >= sLength THEN SubSeq(old, 1, sLength) \o tail ELSE old

\* The context the loop of stringtable::update carries.
UpdateCtx(ok, e, p, index, keys, all, db, log) ==
    [ok |-> ok, err |-> e, pos |-> p, index |-> index, keys |-> keys, all |-> all,
     db |-> db, log |-> log]

\* "read name" with the bit in front of the substring bit read in every
\* delta.
ReadName_alwaysOneBit(d, p, full, keys) ==
    LET miss == read(d, p, 1)
        sub == read(d, miss.pos, 1)
        sIndex == read(d, sub.pos, 5)
        sLength == read(d, sIndex.pos, 5)
        si == BitsToNat(sIndex.val)
        sl == BitsToNat(sLength.val)
        fresh(q) == nReadString(d, q, STRINGTABLE_MAX_KEY_SIZE)
        tail == nReadString(d, sLength.pos, STRINGTABLE_MAX_KEY_SIZE - sl)
    IN  [subAt |-> miss.pos] @@
        (IF ~miss.ok THEN miss
         ELSE IF miss.val[1] = 1 THEN Throw("stringtableKeyMissing", miss.pos)
         ELSE IF ~sub.ok THEN sub
         ELSE IF sub.val[1] = 0 THEN fresh(sub.pos)
         ELSE IF ~sIndex.ok THEN sIndex
         ELSE IF ~sLength.ok THEN sLength
         ELSE IF si >= STRINGTABLE_KEY_HISTORY \/ sl >= STRINGTABLE_MAX_KEY_SIZE
         THEN Throw("stringtableMalformedSubstring", sLength.pos)
         ELSE IF Len(keys) <= si THEN fresh(sLength.pos)
         ELSE IF ~tail.ok THEN tail
         ELSE Ok(tail.pos, SubstringKey(keys[si + 1], sl, tail.val)))

\* "read name": returns [ok, err, pos, val = the key, subAt = the position of
\* the substring bit]; the bit in front of it is read only if (full && ...)
ReadName(d, p, full, keys) ==
    LET miss == IF full = 1 THEN read(d, p, 1) ELSE Ok(p, <<0>>)
        sub == read(d, miss.pos, 1)
        sIndex == read(d, sub.pos, 5)
        sLength == read(d, sIndex.pos, 5)
        si == BitsToNat(sIndex.val)
        sl == BitsToNat(sLength.val)
        fresh(q) == nReadString(d, q, STRINGTABLE_MAX_KEY_SIZE)
        tail == nReadString(d, sLength.pos, STRINGTABLE_MAX_KEY_SIZE - sl)
    IN  [subAt |-> miss.pos] @@
        (IF ~miss.ok THEN miss
         ELSE IF miss.val[1] = 1 THEN Throw("stringtableKeyMissing", miss.pos)
         ELSE IF ~sub.ok THEN sub
         ELSE IF sub.val[1] = 0 THEN fresh(sub.pos)
         ELSE IF ~sIndex.ok THEN sIndex
         ELSE IF ~sLength.ok THEN sLength
         ELSE IF si >= STRINGTABLE_KEY_HISTORY \/ sl >= STRINGTABLE_MAX_KEY_SIZE
         THEN Throw("stringtableMalformedSubstring", sLength.pos)
         ELSE IF Len(keys) <= si THEN fresh(sLength.pos)
         ELSE IF ~tail.ok THEN tail
         ELSE Ok(tail.pos, SubstringKey(keys[si + 1], sl, tail.val)))

\* "read value": returns [ok, err, pos, val = the value]
ReadValue(t, d, p) ==
    LET len == IF t.userDataFixed THEN Ok(p, <<>>) ELSE read(d, p, 14)
        length == IF t.userDataFixed THEN t.userDataSize ELSE BitsToNat(len.val)
        valsize == IF t.userDataFixed THEN t.userDataSizeBits ELSE length * 8
        bits == readBits(d, len.pos, valsize)
    IN  IF ~len.ok THEN len
        ELSE IF length > STRINGTABLE_MAX_VALUE_SIZE
        THEN Throw("stringtableValueOverflow", len.pos)
        ELSE IF ~bits.ok THEN bits
        ELSE Ok(bits.pos, [j \in 1..length |-> IF j <= Len(bits.val) THEN bits.val[j]
                                               ELSE 0])

\* The loop of stringtable::update from its i-th pass on.
RECURSIVE UpdateLoop(_, _, _, _, _, _)
UpdateLoop(t, d, full, entries, i, c) ==
    IF i >= entries \/ ~c.ok THEN c
    ELSE LET fail(r) == UpdateCtx(FALSE, r.err, r.pos, c.index, c.keys, c.all, c.db,
                                  c.log)
             \* "insert entry", and the next pass
             Store(index, hasName, name, keys, all, hasValue, value, db) ==
                 UpdateLoop(t, d, full, entries, i + 1,
                     UpdateCtx(TRUE, "", value.pos, index, keys, all, db,
                         Append(c.log,
                             [key |-> name.val, index |-> index, value |-> value.val,
                              hasName |-> hasName, hasValue |-> hasValue,
                              before |-> c.db, after |-> db, keys |-> c.keys,
                              all |-> c.all])))
             \* "read value"
             Value(index, hasName, name, keys, all, hasValue, value) ==
                 IF ~value.ok
                 THEN UpdateCtx(FALSE, value.err, value.pos, index, keys, all, c.db,
                                c.log)
                 ELSE Store(index, hasName, name, keys, all, hasValue, value,
                            StoreEntry(c.db, name.val, index, value.val, hasName,
                                       hasValue))
             HasValue(index, hasName, name, keys, all, hasValue) ==
                 IF ~hasValue.ok THEN fail(hasValue)
                 ELSE Value(index, hasName, name, keys, all, hasValue.val[1] = 1,
                            IF hasValue.val[1] = 1 THEN ReadValue(t, d, hasValue.pos)
                            ELSE Ok(hasValue.pos, <<>>))
             \* "read name", and the key pushed to the history
             Name(index, hasName, name) ==
                 IF ~name.ok THEN fail(name)
                 ELSE HasValue(index, hasName, name,
                               IF ~hasName THEN c.keys
                               ELSE Append(IF Len(c.keys) >= STRINGTABLE_KEY_HISTORY
                                           THEN Tail(c.keys) ELSE c.keys, name.val),
                               IF ~hasName THEN c.all ELSE Append(c.all, name.val),
                               read(d, name.pos, 1))
             HasName(index, hasName) ==
                 IF ~hasName.ok THEN fail(hasName)
                 ELSE Name(index, hasName.val[1] = 1,
                           IF hasName.val[1] = 1
                           THEN ReadName(d, hasName.pos, full, c.keys)
                           ELSE Ok(hasName.pos, <<>>))
             \* "read index"
             Index(increment, idx) ==
                 IF ~idx.ok THEN fail(idx)
                 ELSE HasName(IF increment THEN c.index + 1 ELSE BitsToNat(idx.val),
                              read(d, idx.pos, 1))
             Increment(increment) ==
                 IF ~increment.ok THEN fail(increment)
                 ELSE Index(increment.val[1] = 1,
                            IF increment.val[1] = 1 THEN Ok(increment.pos, <<>>)
                            ELSE read(d, increment.pos, IndexBits(t.maxEntries)))
         IN  Increment(read(d, c.pos, 1))

\* stringtable::update(entries, data): the history keys starts empty
stringtable_update(t, entries, data, all) ==
    LET d == bitstream(data)
        full == read(d, 0, 1)
    IN  IF ~full.ok THEN UpdateCtx(FALSE, full.err, full.pos, -1, <<>>, all, t.db, <<>>)
        ELSE UpdateLoop(t, d, full.val[1], entries, 0,
                        UpdateCtx(TRUE, "", full.pos, -1, <<>>, all, t.db, <<>>))
\* ------------------------------------------------------------------------
\* Deltas of the replay, written as the bits stringtable::update reads
\* ------------------------------------------------------------------------

\* Deltas applied to the table (the creating one included), entries per delta
MaxDeltas == 2
MaxDeltaEntries == 2

\* max_entries of CSVCMsg_CreateStringTable
TableMaxEntries == 4

\* "CDOTA_Hero", "Npc", "CDOTA_Npc", "a", "b"
KeyHero == <<67, 68, 79, 84, 65, 95, 72, 101, 114, 111>>
KeyNpc == <<78, 112, 99>>
KeyHeroNpc == <<67, 68, 79, 84, 65, 95, 78, 112, 99>>
KeyA == <<97>>
KeyB == <<98>>

\* An entry to encode: index -1 asks for the increment bit; name is
\* [kind |-> "none"], a fresh key or a back-reference; value is <<>> for none.
NoName == [kind |-> "none", key |-> <<>>, sIndex |-> 0, sLength |-> 0]
FreshName(k) == [kind |-> "key", key |-> k, sIndex |-> 0, sLength |-> 0]
BackRef(si, sl, tail) == [kind |-> "sub", key |-> tail, sIndex |-> si, sLength |-> sl]

DeltaEntry(index, name, value) == [index |-> index, name |-> name, value |-> value]

EntryChoices ==
    { DeltaEntry(-1, FreshName(KeyHero), <<1>>),
      DeltaEntry(-1, BackRef(0, 6, KeyNpc), <<2>>),
      DeltaEntry(0, FreshName(KeyB), <<2>>),
      DeltaEntry(0, NoName, <<3>>),
      DeltaEntry(-1, FreshName(KeyHero), <<>>),
      DeltaEntry(1, NoName, <<>>),
      DeltaEntry(-1, BackRef(0, 12, KeyA), <<3>>) }

RECURSIVE SeqsOfLen(_, _)
SeqsOfLen(S, n) ==
    IF n = 0 THEN {<<>>}
    ELSE {Append(q, x) : q \in SeqsOfLen(S, n - 1), x \in S}

DeltaChoices == UNION {SeqsOfLen(EntryChoices, n) : n \in 1..MaxDeltaEntries}

\* v as w bits, least significant first
NatBits(v, w) == [i \in 1..w |-> (v \div Pow2(i - 1)) % 2]

RECURSIVE CharBits(_)
CharBits(k) == IF k = <<>> THEN <<>> ELSE NatBits(Head(k), 8) \o CharBits(Tail(k))

\* a NUL-terminated string
StringBits(k) == CharBits(k) \o NatBits(0, 8)

EntryBits(e, full) ==
    (IF e.index < 0 THEN <<1>> ELSE <<0>> \o NatBits(e.index, IndexBits(TableMaxEntries)))
    \o (IF e.name.kind = "none" THEN <<0>>
        ELSE <<1>> \o (IF full = 1 THEN <<0>> ELSE <<>>)
             \o (IF e.name.kind = "key" THEN <<0>> \o StringBits(e.name.key)
                 ELSE <<1>> \o NatBits(e.name.sIndex, 5) \o NatBits(e.name.sLength, 5)
                      \o StringBits(e.name.key)))
    \o (IF e.value = <<>> THEN <<0>>
        ELSE <<1>> \o NatBits(Len(e.value), 14) \o CharBits(e.value))

RECURSIVE DeltaBits(_, _)
DeltaBits(es, full) ==
    IF es = <<>> THEN <<>> ELSE EntryBits(Head(es), full) \o DeltaBits(Tail(es), full)

\* The bits as the bytes of string_data, the last byte filled with zeros.
PackBytes(bits) ==
    [i \in 1..((Len(bits) + 7) \div 8) |->
        BitsToNat([j \in 1..8 |-> IF 8 * (i - 1) + j <= Len(bits)
                                  THEN bits[8 * (i - 1) + j] ELSE 0])]

string_data(es, full) == PackBytes(<<full>> \o DeltaBits(es, full))

\* ------------------------------------------------------------------------
\* The string table's life: created with its first delta, then updated
\* ------------------------------------------------------------------------

TableInit == TableIdle

ApplyDelta(t, es, full) ==
    LET Done(c) ==
            /\ strtab' = [t EXCEPT !.db = c.db]
            /\ sterr' = c.err
            /\ stkeys' = c.keys
            /\ stall' = c.all
            /\ stlog' = [i \in 1..Len(c.log) |-> [entry |-> es[i]] @@ c.log[i]]
            /\ stcalls' = stcalls + 1
    IN  Done(stringtable_update(t, Len(es), string_data(es, full), stall))

\* handleCreateStringtable: stringtable::stringtable(table) runs
\* update(num_entries, string_data)
stringtable_create(es, full) ==
    /\ ~strtab.created
    /\ stcalls < MaxDeltas
    /\ ApplyDelta([created |-> TRUE, maxEntries |-> TableMaxEntries,
                   userDataFixed |-> FALSE, userDataSize |-> 0,
                   userDataSizeBits |-> 0, db |-> <<>>], es, full)
    /\ UNCHANGED nonTableVars

\* handleUpdateStringtable: it->value.update(m)
handleUpdateStringtable(es, full) ==
    /\ strtab.created
    /\ sterr = ""
    /\ stcalls < MaxDeltas
    /\ ApplyDelta(strtab, es, full)
    /\ UNCHANGED nonTableVars

TableNext ==
    \/ \E es \in DeltaChoices, full \in {0, 1} : stringtable_create(es, full)
    \/ \E es \in DeltaChoices, full \in {0, 1} : handleUpdateStringtable(es, full)

\* Only the string table runs.
InitTable ==
    TableInit /\ HarnessIdle /\ ParserIdle /\ HeaderIdle /\ FlattenIdle /\ NameIdle /\
    HandlerIdle /\ StreamIdle /\ MonitorIdle /\ RunIdle /\ NetIdle

SpecTable == InitTable /\ [][TableNext]_vars
\* The key a back-reference names when it is resolved against history h.
ResolvedKey(h, name) ==
    IF Len(h) > name.sIndex
    THEN LET ref == h[name.sIndex + 1]
         IN  IF Len(ref) >= name.sLength
             THEN SubSeq(ref, 1, name.sLength) \o name.key ELSE ref
    ELSE name.key

\* The keys the entries of the last delta read, in order.
RECURSIVE KeysRead(_)
KeysRead(log) ==
    IF log = <<>> THEN <<>>
    ELSE (IF Head(log).hasName THEN <<Head(log).key>> ELSE <<>>) \o KeysRead(Tail(log))

\* ------------------------------------------------------------------------
\* C7 (as stated): a substring back-reference (hist_index, prefix_len) in a
\* string-table delta is resolved against the key history accumulated by the
\* earlier deltas of the same table: after a Create delta added "CDOTA_Hero",
\* an Update entry with back-reference (0, 6) and tail "Npc" stores the key
\* "CDOTA_Npc", and the history then contains both keys.
\* ------------------------------------------------------------------------
C7_BackRefAgainstEarlierDeltas ==
    \A i \in 1..Len(stlog) :
        stlog[i].entry.name.kind = "sub" =>
            /\ stlog[i].key = ResolvedKey(stlog[i].all, stlog[i].entry.name)
            /\ (i = Len(stlog) /\ sterr = "") =>
                   \A j \in 1..Len(stall) : \E h \in 1..Len(stkeys) : stkeys[h] = stall[j]

\* C7 (amended): a substring back-reference is resolved against the key
\* history of the earlier entries of the same delta, which starts empty in
\* every delta: with more than hist_index keys in it the stored key is the
\* first prefix_len characters of history[hist_index] followed by the tail
\* (the referenced key alone when it is shorter than prefix_len), otherwise
\* the tail alone; when the delta is done the history holds the keys this
\* delta read.  A delta that adds "CDOTA_Hero" and then refers to it with
\* (0, 6) and tail "Npc" stores "CDOTA_Npc".
C7_BackRefAgainstSameDelta ==
    /\ \A i \in 1..Len(stlog) :
          stlog[i].entry.name.kind = "sub" =>
              stlog[i].key = ResolvedKey(KeysRead(SubSeq(stlog, 1, i - 1)),
                                         stlog[i].entry.name)
    /\ sterr = "" => stkeys = KeysRead(stlog)

\* One delta added "CDOTA_Hero" and stored "CDOTA_Npc" by back-reference.
C7_Witness ==
    /\ sterr = ""
    /\ stkeys = <<KeyHero, KeyHeroNpc>>
    /\ stlog[2].entry.name.kind = "sub"
    /\ hasKey(strtab.db, KeyHeroNpc)

\* ------------------------------------------------------------------------
\* C8: for each decoded delta entry, if an entry with the decoded key exists
\* it is updated; otherwise, if an entry with the decoded index exists that
\* entry is updated; otherwise a new entry is inserted at the decoded index.
\* No decoded entry is silently discarded.
\* ------------------------------------------------------------------------
C8_StoreByKeyThenIndexThenInsert ==
    \A i \in 1..Len(stlog) :
        LET it == stlog[i]
        IN  it.hasValue =>
              IF it.hasName /\ hasKey(it.before, it.key)
              THEN \E j \in 1..Len(it.after) :
                      it.after[j].key = it.key /\ it.after[j].value = it.value
              ELSE IF hasIndex(it.before, it.index)
              THEN \E j \in 1..Len(it.after) :
                      it.after[j].index = it.index /\ it.after[j].value = it.value
              ELSE /\ Len(it.after) = Len(it.before) + 1
                   /\ \E j \in 1..Len(it.after) :
                         /\ it.after[j].index = it.index
                         /\ it.after[j].value = it.value
                         /\ it.hasName => it.after[j].key = it.key

\* ------------------------------------------------------------------------
\* entity::readHeader (entity.cpp).  The id is a uint32_t, kept here as its
\* 32 bits, least significant first; the call returns
\* [ok, err, pos, id, nId, type], id being changed before the state bits
\* are read.
\* ------------------------------------------------------------------------

\* Bytes of a header stream, and the ids a header is read against
MaxHeaderBytes == 5
MaxHeaderReads == 2

\* a + b + carry on equally long bit sequences, the last carry dropped
RECURSIVE AddBits(_, _, _)
AddBits(a, b, carry) ==
    IF a = <<>> THEN <<>>
    ELSE <<(Head(a) + Head(b) + carry) % 2>>
         \o AddBits(Tail(a), Tail(b), (Head(a) + Head(b) + carry) \div 2)

\* id += nId + 1
HeaderId(id, nId) == AddBits(id, ZeroExt(nId, 32), 1)

\* The two state bits taken as 00 default, 01 updated, 10 created, 11 deleted.
HeaderState_asListed(first, second) ==
    IF first = 0 THEN (IF second = 1 THEN "updated" ELSE "default")
    ELSE (IF second = 1 THEN "deleted" ELSE "created")

\* if (!read(1)) { read(1) ? created : updated } else if (read(1)) deleted
\* else default
HeaderState(first, second) ==
    IF first = 0 THEN (IF second = 1 THEN "created" ELSE "updated")
    ELSE (IF second = 1 THEN "deleted" ELSE "default")

\* An increment that keeps the two selector bits of the prefix.
HeaderIncrement_wholePrefix(prefix, extra) == prefix \o extra

\* nId = (nId & 15) | (extra << 4)
HeaderIncrement(prefix, extra) == SubSeq(prefix, 1, 4) \o extra

\* Bits read behind the 6-bit prefix: switch (nId & 0x30)
HeaderExtraBits(prefix) ==
    IF prefix[5] = 1 /\ prefix[6] = 0 THEN 4
    ELSE IF prefix[5] = 0 /\ prefix[6] = 1 THEN 8
    ELSE IF prefix[5] = 1 /\ prefix[6] = 1 THEN 28
    ELSE 0

readHeader(d, p, id) ==
    LET fail(r, i, n) == [ok |-> FALSE, err |-> r.err, pos |-> r.pos, id |-> i,
                          nId |-> n, type |-> "none"]
        State(i, n, first, second) ==
            IF ~second.ok THEN fail(second, i, n)
            ELSE [ok |-> TRUE, err |-> "", pos |-> second.pos, id |-> i, nId |-> n,
                  type |-> HeaderState(first.val[1], second.val[1])]
        First(i, n, first) ==
            IF ~first.ok THEN fail(first, i, n)
            ELSE State(i, n, first, read(d, first.pos, 1))
        Id(n, q) == First(HeaderId(id, n), n, read(d, q, 1))
        Extra(prefix, extra) ==
            IF ~extra.ok THEN fail(extra, id, <<>>)
            ELSE Id(HeaderIncrement(prefix.val, extra.val), extra.pos)
        Prefix(prefix) ==
            IF ~prefix.ok THEN fail(prefix, id, <<>>)
            ELSE IF HeaderExtraBits(prefix.val) = 0 THEN Id(prefix.val, prefix.pos)
            ELSE Extra(prefix, read(d, prefix.pos, HeaderExtraBits(prefix.val)))
    IN  Prefix(read(d, p, 6))

\* Byte values of the header streams: each selector of the prefix, with the
\* state bits that share the byte.
HeaderByteVals == {0, 19, 33, 64, 128, 255}

RECURSIVE HeaderBytesOfLen(_)
HeaderBytesOfLen(n) ==
    IF n = 0 THEN {<<>>}
    ELSE {<<b>> \o q : b \in HeaderByteVals, q \in HeaderBytesOfLen(n - 1)}

HeaderBuffers == UNION {HeaderBytesOfLen(n) : n \in 0..MaxHeaderBytes}

\* uint32_t eId = -1 of handleEntity, or an id a header left
HeaderStartIds == {[i \in 1..32 |-> 1], [i \in 1..32 |-> 0],
                   [i \in 1..32 |-> IF i = 1 THEN 1 ELSE 0]}

NoHeader == [ok |-> TRUE, err |-> "", pos |-> 0, id |-> <<>>, nId |-> <<>>,
             type |-> "none"]

HeaderInit ==
    \E b \in HeaderBuffers, i \in HeaderStartIds :
        hdr = [pc |-> "reading", n |-> 0, from |-> 0, id |-> i, bytes |-> b,
               res |-> [NoHeader EXCEPT !.id = i]]

\* entity::readHeader(eId, stream, eType), as the loop of handleEntity
\* calls it on the stream and the id the last call left
ReadHeader ==
    /\ hdr.pc = "reading"
    /\ hdr.n < MaxHeaderReads
    /\ hdr.res.ok
    /\ hdr' = [hdr EXCEPT !.n = @ + 1, !.from = hdr.res.pos, !.id = hdr.res.id,
                          !.res = readHeader(bitstream(hdr.bytes), hdr.res.pos,
                                             hdr.res.id)]
    /\ UNCHANGED nonHeaderVars

HeaderNext == ReadHeader

InitHeader ==
    HeaderInit /\ HarnessIdle /\ ParserIdle /\ TableIdle /\ FlattenIdle /\ NameIdle /\
    HandlerIdle /\ StreamIdle /\ MonitorIdle /\ RunIdle /\ NetIdle

SpecHeader == InitHeader /\ [][HeaderNext]_vars

\* A header was read to its end.
HeaderRead == hdr.pc = "reading" /\ hdr.n > 0 /\ hdr.res.ok

\* n bits of the header stream from position q on
HeaderBits(q, n) == [i \in 1..n |-> BitAt(bitstream(hdr.bytes), q + i - 1)]

\* ------------------------------------------------------------------------
\* C11 (as stated): the two state bits behind the id increment decode as
\* 00 -> default, 01 -> updated, 10 -> created, 11 -> deleted (first bit,
\* second bit), read as two sequential single bits.
\* ------------------------------------------------------------------------
C11_StateBitsAsListed ==
    HeaderRead =>
        hdr.res.type = HeaderState_asListed(HeaderBits(hdr.res.pos - 2, 2)[1],
                                            HeaderBits(hdr.res.pos - 2, 2)[2])

\* C11 (amended): the two state bits behind the id increment are read as two
\* sequential single bits and decode, first bit then second bit, as
\* 00 -> updated, 01 -> created, 10 -> default, 11 -> deleted: a clear
\* first bit means the entity is updated or created, and the second bit
\* selects create (first bit clear) or delete (first bit set).
C11_StateBitsAsRead ==
    HeaderRead =>
        /\ hdr.res.pos = hdr.from + 6 + HeaderExtraBits(HeaderBits(hdr.from, 6)) + 2
        /\ hdr.res.type =
             CASE HeaderBits(hdr.res.pos - 2, 2) = <<0, 0>> -> "updated"
               [] HeaderBits(hdr.res.pos - 2, 2) = <<0, 1>> -> "created"
               [] HeaderBits(hdr.res.pos - 2, 2) = <<1, 0>> -> "default"
               [] HeaderBits(hdr.res.pos - 2, 2) = <<1, 1>> -> "deleted"

\* A second header of the stream was read as "default".
C11_Witness ==
    HeaderRead /\ hdr.n = 2 /\ hdr.res.type = "default"

\* The low and the high half of a 32-bit sequence, as numbers
Lo16(b) == BitsToNat(SubSeq(b, 1, 16))
Hi16(b) == BitsToNat(SubSeq(b, 17, 32))

\* c = a + n + 1 modulo 2^32, on 32-bit sequences
IsNextId(c, a, n) ==
    /\ Lo16(c) = (Lo16(a) + Lo16(n) + 1) % 65536
    /\ Hi16(c) = (Hi16(a) + Hi16(n) + ((Lo16(a) + Lo16(n) + 1) \div 65536)) % 65536

\* ------------------------------------------------------------------------
\* C12 (as stated): the id increment is decoded from a 6-bit prefix by its
\* top two bits: 00 -> the 6-bit value; 01 -> 4 more bits, a 10-bit
\* increment; 10 -> 8 more bits, a 12-bit increment; 11 -> 28 more bits, a
\* 32-bit increment; the id becomes id + increment + 1.
\* ------------------------------------------------------------------------
C12_IncrementWidthsAsListed ==
    HeaderRead =>
        LET prefix == HeaderBits(hdr.from, 6)
            extra == HeaderBits(hdr.from + 6, HeaderExtraBits(prefix))
            nId == IF HeaderExtraBits(prefix) = 0 THEN prefix
                   ELSE IF HeaderExtraBits(prefix) = 4 THEN prefix \o extra
                   ELSE SubSeq(prefix, 1, 4) \o extra
        IN  /\ hdr.res.nId = nId
            /\ IsNextId(hdr.res.id, hdr.id, ZeroExt(nId, 32))

\* C12 (amended): the id increment is decoded from a 6-bit prefix by its
\* top two bits: 00 -> the 6-bit value is the increment; otherwise the low
\* 4 bits of the prefix are the low bits of the increment and the bits read
\* next are its high bits: 01 -> 4 more bits, an 8-bit increment; 10 -> 8
\* more bits, a 12-bit increment; 11 -> 28 more bits, a 32-bit increment.
\* The id then becomes id + increment + 1 modulo 2^32.
C12_IncrementWidthsAsRead ==
    HeaderRead =>
        LET prefix == HeaderBits(hdr.from, 6)
            extra == HeaderBits(hdr.from + 6, HeaderExtraBits(prefix))
            width == CASE <<prefix[5], prefix[6]>> = <<0, 0>> -> 6
                       [] <<prefix[5], prefix[6]>> = <<1, 0>> -> 8
                       [] <<prefix[5], prefix[6]>> = <<0, 1>> -> 12
                       [] <<prefix[5], prefix[6]>> = <<1, 1>> -> 32
            nId == IF width = 6 THEN prefix ELSE SubSeq(prefix, 1, 4) \o extra
        IN  /\ Len(extra) = IF width = 6 THEN 0 ELSE width - 4
            /\ Len(hdr.res.nId) = width
            /\ hdr.res.nId = nId
            /\ IsNextId(hdr.res.id, hdr.id, ZeroExt(nId, 32))

\* A first header with selector 01 was read against the id -1: the low four
\* bits of its prefix and four more bits make the increment and the id.
C12_Witness ==
    /\ HeaderRead
    /\ hdr.n = 1
    /\ hdr.id = [i \in 1..32 |-> 1]
    /\ HeaderExtraBits(HeaderBits(hdr.from, 6)) = 4
    /\ Len(hdr.res.nId) = 8
    /\ hdr.res.id = ZeroExt(hdr.res.nId, 32)

\* ------------------------------------------------------------------------
\* parser::flattenSendtables on the send tables of a replay
\* ------------------------------------------------------------------------

\* Properties in the send table DT_A.
MaxFlatProps == 3

\* The properties DT_A is made of: leaves of priority 2, 2, 1 and 128, a
\* leaf of priority 128 and one of priority 1 that change often, a
\* collapsible and a plain data table property for DT_AB, and the exclusion
\* of DT_AB's property x.
FlatPool ==
    { sendprop_t("Bx", "T_Int", {}, 2, ""),
      sendprop_t("y", "T_Int", {}, 2, ""),
      sendprop_t("z", "T_Int", {}, 1, ""),
      sendprop_t("u", "T_Int", {}, 128, ""),
      sendprop_t("w", "T_Int", {"CHANGES_OFTEN"}, 128, ""),
      sendprop_t("v", "T_Int", {"CHANGES_OFTEN"}, 1, ""),
      sendprop_t("sub", "T_DataTable", {"COLLAPSIBLE"}, 128, "DT_AB"),
      sendprop_t("own", "T_DataTable", {}, 128, "DT_AB"),
      sendprop_t("x", "T_Int", {"EXCLUDE"}, 128, "DT_AB") }

\* sendtable::insert keys the properties by name: the names of a table differ.
FlatPropLists ==
    { q \in SeqsOfLen(FlatPool, MaxFlatProps) :
        \A i, j \in 1..Len(q) : i # j => q[i].var_name # q[j].var_name }

\* CSVCMsg_SendTable for DT_AB; back says whether it refers to DT_A in turn.
FlatTableAB(back) ==
    [net_table_name |-> "DT_AB",
     props |-> << sendprop_t("x", "T_Int", {}, 1, ""),
                  sendprop_t("y", "T_Int", {}, 0, "") >>
               \o (IF back
                   THEN << sendprop_t("back", "T_DataTable", {"COLLAPSIBLE"}, 128, "DT_A") >>
                   ELSE << >>)]

\* The send tables as parser::handleSendTable stored them: DT_A, then DT_AB.
FlatSendTables ==
    { << sendtable([net_table_name |-> "DT_A", props |-> q]),
         sendtable(FlatTableAB(back)) >> :
        q \in FlatPropLists, back \in BOOLEAN }

NoFlat == [ok |-> TRUE, err |-> "", tbls |-> <<>>, flattables |-> <<>>]

\* DEM_ClassInfo records in the replay.
MaxClassInfos == 2

\* All send tables are in, no class info has arrived; status counts the
\* REPLAY_FLATTABLES events forwarded.
FlatInit ==
    /\ flt \in { [pc |-> "tables", n |-> 0, tbls |-> t,
                   res |-> [NoFlat EXCEPT !.tbls = t], status |-> 0] :
                    t \in FlatSendTables }

\* parser::handleClasses for a DEM_ClassInfo record that lists no classes:
\* flattenSendtables() on the tables received, appending to the flat tables
\* there are, then the REPLAY_FLATTABLES status; an exception of the
\* flattener ends the parse.
FlatHandleClasses ==
    /\ flt.pc \in {"tables", "flat"}
    /\ flt.n < MaxClassInfos
    /\ flt.res.ok
    /\ LET Done(f) ==
               flt' = [flt EXCEPT !.pc = "flat", !.n = @ + 1, !.res = f,
                                  !.status = IF f.ok THEN @ + 1 ELSE @]
       IN  Done(flattenSendtables(flt.res.tbls, flt.res.flattables))
    /\ UNCHANGED nonFlattenVars

FlatNext == FlatHandleClasses

InitFlat ==
    FlatInit /\ HarnessIdle /\ ParserIdle /\ TableIdle /\ HeaderIdle /\ NameIdle /\
    HandlerIdle /\ StreamIdle /\ MonitorIdle /\ RunIdle /\ NetIdle

SpecFlat == InitFlat /\ [][FlatNext]_vars

\* The flat tables built by the first class info, by position in the send
\* table list.
FlatBuilt ==
    IF flt.pc = "flat" /\ flt.n = 1 THEN 1..Len(flt.res.flattables) ELSE {}

\* The list buildHierarchy hands to the sort for the i-th send table.
FlatGathered(i) ==
    LET G(ex) == buildHierarchy(flt.res.tbls, flt.res.tbls[i], ex.excludes,
                                <<>>, "", MaxDepth).props
    IN  G(buildExcludeList(flt.res.tbls, flt.res.tbls[i], 1, {}, MaxDepth))

\* a stands in front of b in the list g
Preceded(g, a, b) ==
    \E m, n \in 1..Len(g) : m < n /\ g[m] = a /\ g[n] = b

\* The pass of the sort that collects the entry e: its priority, and 64 for
\* an entry that changes often and has a higher priority.
Bucket(e) ==
    IF "CHANGES_OFTEN" \in e.prop.flags /\ e.prop.priority > 64
    THEN 64 ELSE e.prop.priority

\* How often e occurs in the list g
Count(g, e) == Cardinality({m \in 1..Len(g) : g[m] = e})

\* C13 (as stated): in every flattened list each adjacent pair (a, b) has
\* priority(a) < priority(b), or equal priorities with a in front of b in the
\* gathered list, or a changes often and b does not.
C13_AdjacentPairsKeepGatheredOrder ==
    \A i \in FlatBuilt :
        LET Ordered(p, g) ==
                \A k \in 1..(Len(p) - 1) :
                    \/ p[k].prop.priority < p[k + 1].prop.priority
                    \/ /\ p[k].prop.priority = p[k + 1].prop.priority
                       /\ Preceded(g, p[k], p[k + 1])
                    \/ /\ "CHANGES_OFTEN" \in p[k].prop.flags
                       /\ "CHANGES_OFTEN" \notin p[k + 1].prop.flags
        IN  Ordered(flt.res.flattables[i].properties, FlatGathered(i))

\* C13 (amended): every flattened list is a rearrangement of the gathered
\* list in which adjacent entries have non-decreasing buckets; the entries of
\* the lowest bucket keep their gathered order; an entry of a higher bucket
\* that stood where a collected entry was put is exchanged with it, so that
\* the gathered list Bx(2), y(2), z(1) is flattened to z, y, Bx.
C13_SortedByBucketWithExchanges ==
    \A i \in FlatBuilt :
        LET Lowest(g) == SetMin({Bucket(g[m]) : m \in 1..Len(g)} \cup {64})
            Ordered(p, g) ==
                /\ Len(p) = Len(g)
                /\ \A k \in 1..Len(p) : Count(p, p[k]) = Count(g, p[k])
                /\ \A k \in 1..(Len(p) - 1) : Bucket(p[k]) <= Bucket(p[k + 1])
                /\ SelectSeq(p, LAMBDA e : Bucket(e) = Lowest(g))
                     = SelectSeq(g, LAMBDA e : Bucket(e) = Lowest(g))
                /\ [m \in 1..Len(g) |-> g[m].prop.name] = <<"Bx", "y", "z">>
                     => [m \in 1..Len(p) |-> p[m].prop.name] = <<"z", "y", "Bx">>
        IN  Ordered(flt.res.flattables[i].properties, FlatGathered(i))

\* A flat table in which two entries of one bucket stand in the reverse of
\* their gathered order.
C13_Witness ==
    \E i \in FlatBuilt :
        LET Reversed(p, g) ==
                \E k, l \in 1..Len(p) :
                    /\ k < l
                    /\ Bucket(p[k]) = Bucket(p[l])
                    /\ p[k] # p[l]
                    /\ Preceded(g, p[l], p[k])
        IN  Reversed(flt.res.flattables[i].properties, FlatGathered(i))

\* The names of the tables buildExcludeList enters from the tables named in
\* names, after n more rounds of following data table properties.
\* The properties of the send tables named in names.
PropsOfTables(tbls, names) ==
    UNION { { tbls[t].props[k] : k \in 1..Len(tbls[t].props) } :
              t \in {u \in 1..Len(tbls) : tbls[u].name \in names} }

\* The names of the tables buildExcludeList enters from the tables named in
\* names, after n more rounds of following data table properties.
RECURSIVE ExcludeReach(_, _, _)
ExcludeReach(tbls, names, n) ==
    IF n = 0 THEN names
    ELSE ExcludeReach(tbls,
            names \cup { e.classname :
                           e \in { pr \in PropsOfTables(tbls, names) :
                                     /\ pr.type = "T_DataTable"
                                     /\ "EXCLUDE" \notin pr.flags } },
            n - 1)

\* The properties with the EXCLUDE flag in the tables reachable from the
\* i-th send table.
FlatExcludeProps(i) ==
    { e \in PropsOfTables(flt.res.tbls,
                          ExcludeReach(flt.res.tbls, {flt.res.tbls[i].name},
                                       Len(flt.res.tbls))) :
        "EXCLUDE" \in e.flags }

\* The send tables whose properties gatherProperties walks for the i-th
\* flat table: the table itself and the tables of the data table properties
\* it follows from there.
FlatVisited(i) ==
    LET Followed(T, ex) ==
            {T} \cup { flt.res.tbls[findKey(flt.res.tbls, T.props[k].classname)] :
                        k \in { l \in 1..Len(T.props) :
                                  /\ T.props[l].type = "T_DataTable"
                                  /\ T.props[l].flags \cap {"EXCLUDE", "INSIDEARRAY"} = {}
                                  /\ (T.name \o T.props[l].name) \notin ex.excludes } }
    IN  Followed(flt.res.tbls[i],
                 buildExcludeList(flt.res.tbls, flt.res.tbls[i], 1, {}, MaxDepth))

\* The leaf properties of the table U that gatherProperties does not pass
\* over for their own flags.
FlatLeaves(U) ==
    { U.props[k] : k \in { l \in 1..Len(U.props) :
                             /\ U.props[l].type # "T_DataTable"
                             /\ U.props[l].flags \cap {"EXCLUDE", "INSIDEARRAY"} = {} } }

\* The i-th flat table has no entry for the property pr.
FlatOmits(i, pr) ==
    \A k \in 1..Len(flt.res.flattables[i].properties) :
        flt.res.flattables[i].properties[k].prop # pr

\* C14: a leaf property p of a table U visited while flattening T is left
\* out for exclusion exactly if an EXCLUDE property reachable from T names
\* the table U and the property p.
C14_OmittedIffNamedByExclude ==
    \A i \in FlatBuilt :
        \A U \in FlatVisited(i) :
            \A pr \in FlatLeaves(U) :
                FlatOmits(i, pr)
                    <=> \E e \in FlatExcludeProps(i) :
                            e.classname = U.name /\ e.name = pr.name

\* C15: flattening the send tables comes to an end for every finite set of
\* send tables, also when data table properties refer to each other in a
\* cycle: the recursion of buildExcludeList never outgrows the call stack.
C15_FlattenEndsOnCycles ==
    flt.pc = "flat" => flt.res.err # "stackOverflow"

\* C16: the Flattables status is emitted exactly once in a session, after the
\* class info was processed and the flattener completed, and the flat tables
\* are from then on the ones built for it, one for each send table.
C16_FlattablesStatusOnce ==
    /\ flt.status <= 1
    /\ flt.status = 1 => Len(flt.res.flattables) = Len(flt.res.tbls)

\* ------------------------------------------------------------------------
\* Events of the entity engine
\* ------------------------------------------------------------------------

\* The EntityDelta events forwarded for the header handled last; the ids of
\* the headers of a record differ, and events holds the events of the record.
DeltasOfHeader ==
    IF rec.i >= 1 /\ hist.last.type # "swept"
    THEN { k \in 1..Len(events) :
             /\ events[k].family = "msgEntityDelta"
             /\ events[k].data.entity_id = rec.eId }
    ELSE {}

\* C17: with track_entities every EntityDelta event forwarded while a header
\* is processed carries the field ids decoded from that header's update, and
\* no other.
C17_DeltaCarriesHeaderFields ==
    set.track_entities =>
        \A k \in DeltasOfHeader : events[k].data.entity_fields = hist.last.fields

\* C18: Entity events are published only with forward_entities; without it
\* no Entity callback is invoked.
C18_EntityEventsOnlyWhenForwarded ==
    ~set.forward_entities =>
        \A k \in 1..Len(events) :
            events[k].family = "msgEntity" => ~events[k].delivered

\* ------------------------------------------------------------------------
\* C19: after any sequence of Create and Update deltas the indices of the
\* entries of a string table are exactly 0 .. size - 1.
\* ------------------------------------------------------------------------
C19_IndicesDense ==
    strtab.created =>
        {strtab.db[j].index : j \in 1..Len(strtab.db)} = 0..(Len(strtab.db) - 1)

\* ------------------------------------------------------------------------
\* "read name" of stringtable::update on its own: the bits behind a set
\* hasName bit
\* ------------------------------------------------------------------------

\* Bytes of string_data behind the hasName bit
MaxNameBytes == 3

NameByteVals == {0, 1, 2, 3, 8, 255}

NameBuffers == SeqsOfLen(NameByteVals, MaxNameBytes)

\* The key history at the entry: empty, or one key.
NameHistories == { <<>>, <<KeyHero>> }

\* hasName was read as 1; full is the first bit of the delta.
NameInit ==
    nam \in { [pc |-> "hasName", full |-> f, keys |-> h, bytes |-> b, from |-> 0,
               res |-> <<>>] :
                f \in {0, 1}, h \in NameHistories, b \in NameBuffers }

\* if (hasName) { ... } up to keys.push_back
ReadNameStep ==
    /\ nam.pc = "hasName"
    /\ nam' = [nam EXCEPT !.pc = "read",
                          !.res = ReadName(bitstream(nam.bytes), nam.from, nam.full,
                                           nam.keys)]
    /\ UNCHANGED nonNameVars

NameNext == ReadNameStep

InitName ==
    NameInit /\ HarnessIdle /\ ParserIdle /\ TableIdle /\ HeaderIdle /\ FlattenIdle /\
    HandlerIdle /\ StreamIdle /\ MonitorIdle /\ RunIdle /\ NetIdle

SpecName == InitName /\ [][NameNext]_vars

\* The bit of the stream that follows the hasName bit.
NameFirstBit == read(bitstream(nam.bytes), nam.from, 1).val[1]

\* C20 (as stated): whenever hasName is set exactly one bit is read before
\* the substring bit, whether or not full is set, and the update fails with
\* KeyMissing exactly when both full and that bit are set.
C20_OneBitBeforeSubstring ==
    nam.pc = "read" =>
        /\ nam.res.err # "stringtableKeyMissing" => nam.res.subAt = nam.from + 1
        /\ nam.res.err = "stringtableKeyMissing"
              <=> (nam.full = 1 /\ NameFirstBit = 1)

\* C20 (amended): when hasName is set, one bit is read before the substring
\* bit if full is set and none if full is clear; the update fails with
\* KeyMissing exactly when full is set and that bit is set.
C20_OneBitBeforeSubstringWhenFull ==
    nam.pc = "read" =>
        /\ nam.res.err # "stringtableKeyMissing" => nam.res.subAt = nam.from + nam.full
        /\ nam.res.err = "stringtableKeyMissing"
              <=> (nam.full = 1 /\ NameFirstBit = 1)

\* A name read in a delta without full: the bit behind hasName is set and is
\* taken for the substring bit.
C20_Witness ==
    /\ nam.pc = "read"
    /\ nam.full = 0
    /\ NameFirstBit = 1
    /\ nam.res.ok
    /\ nam.res.subAt = nam.from

\* ------------------------------------------------------------------------
\* C21: on the Delete of an entity its state becomes deleted, the
\* subscribers are invoked, and only afterwards is the slot cleared: the
\* entity handed to the subscribers is in state deleted and still has its
\* id, and the slot is empty once the header is done.
\* ------------------------------------------------------------------------
C21_DeleteClearsAfterDispatch ==
    /\ \A k \in 1..Len(events) :
          (/\ events[k].family = "msgEntity"
           /\ events[k].delivered
           /\ events[k].data.currentState = "deleted") => events[k].data.id # -1
    /\ (hist.last.type = "deleted" /\ epc # "failed") => rec.eId \notin DOMAIN entities

\* ------------------------------------------------------------------------
\* C22: creating an entity, updating it and deleting it through the delta
\* tail sweep, the entity being subscribed and not skipped, invokes exactly
\* three Entity callbacks for it, which see the states created, updated and
\* deleted in that order, and leaves its slot uninitialized.
\* ------------------------------------------------------------------------
C22_CreateUpdateSweepCallbacks ==
    LET Scenario(t) ==
            /\ Len(t) = 3
            /\ t[1].type = "created" /\ t[2].type = "updated" /\ t[3].type = "swept"
            /\ \A i \in 1..3 : t[i].subscribed /\ ~t[i].skipped
        Expected(t) ==
            /\ t[1].seen \o t[2].seen \o t[3].seen = <<"created", "updated", "deleted">>
            /\ TrailId \notin DOMAIN entities
    IN  Scenario(hist.trail) => Expected(hist.trail)

\* The entity was created in one record, updated and swept in the next, and
\* its subscriber was called at each of the three.
C22_Witness ==
    /\ Len(hist.trail) = 3
    /\ hist.trail[1].type = "created" /\ hist.trail[1].seen = <<"created">>
    /\ hist.trail[2].type = "updated" /\ hist.trail[2].seen = <<"updated">>
    /\ hist.trail[3].type = "swept" /\ hist.trail[3].seen = <<"deleted">>
    /\ rec.count = 2
    /\ TrailId \notin DOMAIN entities

\* ------------------------------------------------------------------------
\* C23: within one Create the class baseline of "instancebaseline" is
\* applied before the record's own delta: a field the two share ends with
\* the value of the delta, a field only the baseline has keeps the
\* baseline's value.
\* ------------------------------------------------------------------------
InSeq(x, q) == \E k \in 1..Len(q) : q[k] = x

C23_BaselineBeforeDelta ==
    LET n == hist.last
        base == InstanceBaseline[n.cls]
    IN  (/\ n.type = "created" /\ ~n.skipped /\ epc # "failed"
         /\ n.id \in DOMAIN entities)
        => \A f \in 0..(Len(entities[n.id].properties) - 1) :
              /\ (InSeq(f, n.fields) /\ InSeq(f, base))
                    => entities[n.id].properties[f + 1].value = "delta"
              /\ (~InSeq(f, n.fields) /\ InSeq(f, base))
                    => entities[n.id].properties[f + 1].value = "baseline"

\* A Create of class 0, whose baseline holds field 0, with a delta that
\* holds field 0 too.
C23_Witness ==
    /\ hist.last.type = "created" /\ ~hist.last.skipped /\ epc # "failed"
    /\ hist.last.id \in DOMAIN entities
    /\ hist.last.fields = <<0>>
    /\ InstanceBaseline[hist.last.cls] = <<0>>
    /\ entities[hist.last.id].properties[1].value = "delta"

\* ------------------------------------------------------------------------
\* C24: a PacketEntities record with updated_entries = 0 and is_delta =
\* false invokes no subscriber and leaves the entity store unchanged: its
\* handling is over with the entry of handleEntity, which calls nothing and
\* writes no slot, and nothing behind it touches the store or calls a
\* subscriber for it.
\* ------------------------------------------------------------------------
EmptyRecord(r) == r.count > 0 /\ r.updated_entries = 0 /\ ~r.is_delta

C24_EmptyRecordTouchesNothing ==
    [][/\ (rec'.count # rec.count /\ EmptyRecord(rec'))
            => (/\ entities' = entities
                /\ oob' = oob
                /\ events' = <<>>
                /\ epc' \in {"ready", "failed"})
       /\ (rec'.count = rec.count /\ EmptyRecord(rec))
            => (entities' = entities /\ oob' = oob /\ events' = events)]_vars

\* An empty full record arrived while a subscribed entity was in the store.
C24_Witness ==
    /\ EmptyRecord(rec)
    /\ epc = "ready"
    /\ events = <<>>
    /\ \E id \in DOMAIN entities : hasCallback("msgEntity", entities[id].cls.id)

\* ------------------------------------------------------------------------
\* handlersub (handler.hpp, handler_impl.hpp): cb maps an id to the vector
\* of its callbacks, obj maps an id to the function that turns the raw data
\* into a message.  Both are unordered maps: operator[] inserts the id with
\* an empty vector (a null function) when it is missing, size() counts the
\* ids present.  The ids are numbers, as forward's cbObject<Obj, uint32_t>
\* has them, so registerCallback never takes its prefix branch.
\* hnd.reg follows what registerCallback and removeCallback
\* were asked to do, per id; hnd.last is the last forward: the callbacks it
\* invoked, in order, and the ones registered at its id when it was called.
\* ------------------------------------------------------------------------

\* Ids callbacks are registered at
MaxCbId == 2

\* Callbacks one id holds at most
MaxCallbacks == 2

CbIds == 0..MaxCbId

Delegates == {"f", "g"}

\* m[i] of an unordered map whose mapped type defaults to dflt
MapAt(m, i, dflt) == IF i \in DOMAIN m THEN m[i] ELSE dflt

\* the map after m[i] was evaluated
MapTouch(m, i, dflt) == Put(m, i, MapAt(m, i, dflt))

MapSize(m) == Cardinality(DOMAIN m)

\* cb[i].push_back(d)
handlersub_registerCallback(cb, i, d) == Put(cb, i, Append(MapAt(cb, i, <<>>), d))

\* the first element equal to d erased
RECURSIVE EraseFirst(_, _)
EraseFirst(q, d) ==
    IF q = <<>> THEN <<>>
    ELSE IF Head(q) = d THEN Tail(q)
    ELSE <<Head(q)>> \o EraseFirst(Tail(q), d)

\* for (it = cb[i].begin(); ...) if (*it == d) { cb[i].erase(it); break; }
handlersub_removeCallback(cb, i, d) == Put(cb, i, EraseFirst(MapAt(cb, i, <<>>), d))

\* obj[i] = [](stringWrapper&& data) { ... }
handlersub_registerObject(obj, i) == Put(obj, i, "fn")

Forwarded(cb, obj, called, e) == [cb |-> cb, obj |-> obj, called |-> called, err |-> e]

\* handlersub::forward(i, data, tick): conv tells whether the data has to be
\* turned into a message first (Obj and Data differ)
handlersub_forward(cb, obj, conv, i) ==
    IF MapSize(cb) <= i THEN Forwarded(cb, obj, <<>>, "")
    ELSE LET cb1 == MapTouch(cb, i, <<>>)
             obj1 == MapTouch(obj, i, "nullptr")
         IN  IF cb1[i] = <<>> THEN Forwarded(cb1, obj, <<>>, "")
             ELSE IF conv /\ MapSize(obj) <= i
             THEN Forwarded(cb1, obj, <<>>, "handlerNoConversionAvailable")
             ELSE IF conv /\ obj1[i] = "nullptr"
             THEN Forwarded(cb1, obj1, <<>>, "handlerNoConversionAvailable")
             ELSE Forwarded(cb1, IF conv THEN obj1 ELSE obj, cb1[i], "")

NoneRegistered == [i \in CbIds |-> <<>>]

HandlerInit ==
    \E c \in BOOLEAN :
        hnd = [pc |-> "run", conv |-> c, cb |-> <<>>, obj |-> <<>>,
               reg |-> NoneRegistered, last |-> <<>>]

HandlerRegisterCallback(i, d) ==
    /\ hnd.pc = "run"
    /\ Len(hnd.reg[i]) < MaxCallbacks
    /\ hnd' = [hnd EXCEPT !.cb = handlersub_registerCallback(@, i, d),
                          !.reg[i] = Append(@, d),
                          !.last = <<>>]
    /\ UNCHANGED nonHandlerVars

HandlerRemoveCallback(i, d) ==
    /\ hnd.pc = "run"
    /\ hnd' = [hnd EXCEPT !.cb = handlersub_removeCallback(@, i, d),
                          !.reg[i] = EraseFirst(@, d),
                          !.last = <<>>]
    /\ UNCHANGED nonHandlerVars

HandlerRegisterObject(i) ==
    /\ hnd.pc = "run"
    /\ hnd' = [hnd EXCEPT !.obj = handlersub_registerObject(@, i), !.last = <<>>]
    /\ UNCHANGED nonHandlerVars

\* cb.clear(); obj.clear(); cbpref.clear();
HandlerClear ==
    /\ hnd.pc = "run"
    /\ hnd' = [hnd EXCEPT !.cb = <<>>, !.obj = <<>>, !.reg = NoneRegistered,
                          !.last = <<>>]
    /\ UNCHANGED nonHandlerVars

HandlerForward(i) ==
    /\ hnd.pc = "run"
    /\ LET r == handlersub_forward(hnd.cb, hnd.obj, hnd.conv, i)
       IN  hnd' = [hnd EXCEPT !.cb = r.cb, !.obj = r.obj,
                              !.last = [id |-> i, called |-> r.called, err |-> r.err,
                                        registered |-> hnd.reg[i]]]
    /\ UNCHANGED nonHandlerVars

HandlerNext ==
    \/ \E i \in CbIds, d \in Delegates : HandlerRegisterCallback(i, d)
    \/ \E i \in CbIds, d \in Delegates : HandlerRemoveCallback(i, d)
    \/ \E i \in CbIds : HandlerRegisterObject(i)
    \/ HandlerClear
    \/ \E i \in CbIds : HandlerForward(i)

\* Only the handlersub is exercised.
InitHandler ==
    HandlerInit /\ HarnessIdle /\ ParserIdle /\ TableIdle /\ HeaderIdle /\
    FlattenIdle /\ NameIdle /\ StreamIdle /\ MonitorIdle /\ RunIdle /\ NetIdle

SpecHandler == InitHandler /\ [][HandlerNext]_vars

MaxTail == 3

\* Bytes with all bits set in front of the head byte: none, and as
\* many as a 32 bit and a 64 bit varint take at most
RunLengths == {0, VARINT32_MAX, VARINT64_MAX}

\* The byte behind the run: every pattern of its three low bits
HeadBytes == 0..7

Fill(v, n) == [i \in 1..n |-> v]

StreamBuffers ==
    { Fill(255, k) \o <<b>> \o Fill(0, MaxTail) : k \in RunLengths, b \in HeadBytes }

ReadWidths == {1, 8, 32, 33}

\* Seek distances; the negative one stands for 2^64 - 1
SeekAmounts == {1, 8, 40, -1}

SIntWidths == {1, 3, 8}

StreamInit ==
    \E b \in StreamBuffers :
        bs = [pc |-> "run", d |-> bitstream(b), pos |-> 0, op |-> "", arg |-> <<>>,
              from |-> 0, res |-> <<>>, twin |-> <<>>]

\* The stream after the call op(arg) that returned r
Called(op, arg, r, t) ==
    [bs EXCEPT !.pos = r.pos, !.op = op, !.arg = arg, !.from = bs.pos, !.res = r,
               !.twin = t]

StreamRead(n) ==
    /\ bs.pc = "run"
    /\ bs' = Called("read", n, read(bs.d, bs.pos, n), <<>>)
    /\ UNCHANGED nonStreamVars

StreamSeekForward(n) ==
    /\ bs.pc = "run"
    /\ bs' = Called("seekForward", n, Ok(seekForward(bs.d, bs.pos, n), <<>>), <<>>)
    /\ UNCHANGED nonStreamVars

StreamSeekBackward(n) ==
    /\ bs.pc = "run"
    /\ bs' = Called("seekBackward", n, Ok(seekBackward(bs.pos, n), <<>>),
                    IF bs.op = "seekForward" /\ bs.arg = n
                    THEN [from |-> bs.from] ELSE <<>>)
    /\ UNCHANGED nonStreamVars

StreamReadSInt(n) ==
    /\ bs.pc = "run"
    /\ bs' = Called("nReadSInt", n, nReadSInt(bs.d, bs.pos, n), <<>>)
    /\ UNCHANGED nonStreamVars

StreamReadVarUInt32 ==
    /\ bs.pc = "run"
    /\ bs' = Called("nReadVarUInt32", <<>>, nReadVarUInt32(bs.d, bs.pos),
                    nSkipVarInt(bs.d, bs.pos))
    /\ UNCHANGED nonStreamVars

StreamReadVarUInt64 ==
    /\ bs.pc = "run"
    /\ bs' = Called("nReadVarUInt64", <<>>, nReadVarUInt64(bs.d, bs.pos),
                    nSkipVarInt(bs.d, bs.pos))
    /\ UNCHANGED nonStreamVars

StreamSkipVarInt ==
    /\ bs.pc = "run"
    /\ bs' = Called("nSkipVarInt", <<>>, nSkipVarInt(bs.d, bs.pos), <<>>)
    /\ UNCHANGED nonStreamVars

StreamReadCoordMp(integral, lowPrecision) ==
    /\ bs.pc = "run"
    /\ bs' = Called("nReadCoordMp", <<integral, lowPrecision>>,
                    nReadCoordMp(bs.d, bs.pos, integral, lowPrecision),
                    nSkipCoordMp(bs.d, bs.pos, integral, lowPrecision))
    /\ UNCHANGED nonStreamVars

StreamSkipCoordMp(integral, lowPrecision) ==
    /\ bs.pc = "run"
    /\ bs' = Called("nSkipCoordMp", <<integral, lowPrecision>>,
                    nSkipCoordMp(bs.d, bs.pos, integral, lowPrecision), <<>>)
    /\ UNCHANGED nonStreamVars

\* The other decoders and skips of the class
OtherCalls ==
    {"nReadNormal", "nSkipNormal", "nReadVarSInt32", "nReadVarSInt64", "nReadCoord",
     "nSkipCoord", "nReadCellCoord", "nSkipCellCoord", "nReadString", "nSkipString",
     "readBits"}

OtherCall(op, d, p) ==
    CASE op = "nReadNormal" -> nReadNormal(d, p)
      [] op = "nSkipNormal" -> nSkipNormal(d, p)
      [] op = "nReadVarSInt32" -> nReadVarSInt32(d, p)
      [] op = "nReadVarSInt64" -> nReadVarSInt64(d, p)
      [] op = "nReadCoord" -> nReadCoord(d, p)
      [] op = "nSkipCoord" -> nSkipCoord(d, p)
      [] op = "nReadCellCoord" -> nReadCellCoord(d, p, 4, FALSE, FALSE)
      [] op = "nSkipCellCoord" -> nSkipCellCoord(d, p, 4, FALSE, FALSE)
      [] op = "nReadString" -> nReadString(d, p, 2)
      [] op = "nSkipString" -> nSkipString(d, p, 2)
      [] op = "readBits" -> readBits(d, p, 11)

StreamOther(op) ==
    /\ bs.pc = "run"
    /\ bs' = Called(op, <<>>, OtherCall(op, bs.d, bs.pos), <<>>)
    /\ UNCHANGED nonStreamVars

StreamNext ==
    \/ \E n \in ReadWidths : StreamRead(n)
    \/ \E n \in SeekAmounts : StreamSeekForward(n)
    \/ \E n \in SeekAmounts : StreamSeekBackward(n)
    \/ \E n \in SIntWidths : StreamReadSInt(n)
    \/ StreamReadVarUInt32
    \/ StreamReadVarUInt64
    \/ StreamSkipVarInt
    \/ \E i \in BOOLEAN, l \in BOOLEAN : StreamReadCoordMp(i, l)
    \/ \E i \in BOOLEAN, l \in BOOLEAN : StreamSkipCoordMp(i, l)
    \/ \E op \in OtherCalls : StreamOther(op)

\* Only the bitstream is exercised.
InitStream ==
    StreamInit /\ HarnessIdle /\ ParserIdle /\ TableIdle /\ HeaderIdle /\
    FlattenIdle /\ NameIdle /\ HandlerIdle /\ MonitorIdle /\ RunIdle /\
    NetIdle

SpecStream == InitStream /\ [][StreamNext]_vars

\* ------------------------------------------------------------------------
\* C26: after any sequence of reads, decoders, skips and seeks on a
\* bitstream, whether they succeed or fail, 0 <= pos <= size.
\* ------------------------------------------------------------------------
C26_PosWithinStream == bs.pos >= 0 /\ bs.pos <= bs.d.size

\* A seek forward was cut short at the end of the stream, and the read
\* behind it failed there.
C26_Witness ==
    /\ bs.op = "read"
    /\ ~bs.res.ok
    /\ bs.d.size > 0
    /\ bs.pos = bs.d.size

\* ------------------------------------------------------------------------
\* C27 (as stated): for any bitstream over a buffer of at most 65,536
\* bytes, any position and any n, seekForward(n) followed by
\* seekBackward(n) returns to the position the first seek started from.
\* ------------------------------------------------------------------------
RoundTrip == bs.op = "seekBackward" /\ bs.twin # <<>>

C28_SkipVarIntEndsWhereReadEnds ==
    (bs.op \in {"nReadVarUInt32", "nReadVarUInt64"} /\ bs.res.ok)
        => bs.twin.pos = bs.res.pos

\* ------------------------------------------------------------------------
\* C29: for every combination of integral and lowPrecision and every
\* pattern of the flag bits, nSkipCoordMp advances pos by exactly what
\* nReadCoordMp advances it.
\* ------------------------------------------------------------------------
C29_SkipCoordMpEndsWhereReadEnds ==
    (bs.op = "nReadCoordMp" /\ bs.res.ok) => bs.twin.pos = bs.res.pos

\* ------------------------------------------------------------------------
\* C30 (as stated): read_sint(bits) reads v = read(bits) and returns
\* v - sign when v >= sign, with sign = 1 << (bits - 1), and v otherwise.
\* ------------------------------------------------------------------------

\* The int32_t a 32 bit pattern stands for
ToInt32(b) ==
    LET low == BitsToNat(SubSeq(b, 1, 31))
    IN  IF b[32] = 1 THEN low - 2147483647 - 1 ELSE low

\* v = read(bits) of the last nReadSInt
SIntRead == BitsToNat(read(bs.d, bs.from, bs.arg).val)

\* sign = 1 << (bits - 1)
SIntSign == Pow2(bs.arg - 1)

SIntReturned == bs.op = "nReadSInt" /\ bs.res.ok

C30_SIntSubtractsSign ==
    SIntReturned
        => ToInt32(bs.res.val) = (IF SIntRead >= SIntSign THEN SIntRead - SIntSign
                                  ELSE SIntRead)

\* C30 (amended): read_sint(bits) returns v - 2 * sign when v >= sign, the
\* two's complement value of the bits read, and v otherwise.
C30_SIntSubtractsSignTwice ==
    SIntReturned
        => ToInt32(bs.res.val) = (IF SIntRead >= SIntSign
                                  THEN SIntRead - SIntSign - SIntSign
                                  ELSE SIntRead)

\* Three bits 101 were read as -3.
C30_Witness ==
    /\ SIntReturned
    /\ bs.arg = 3
    /\ SIntRead = 5
    /\ ToInt32(bs.res.val) = -3

\* ------------------------------------------------------------------------
\* C31: an Int property with ENCODED_AGAINST_TICKCOUNT is decoded as an
\* unsigned varint when UNSIGNED is set and as a zig-zag signed varint
\* otherwise.
\* ------------------------------------------------------------------------
C31_TickCountIntZigZagUnlessUnsigned ==
    (/\ hpc = "decoded"
     /\ hprop.type = "T_Int"
     /\ TICK \in hprop.flags
     /\ decoded.ok)
        => decoded.val = (IF "UNSIGNED" \in hprop.flags
                          THEN nReadVarUInt32(stream, cur).val
                          ELSE nReadVarSInt32(stream, cur).val)

\* ------------------------------------------------------------------------
\* C32 (as stated): during prioritization a prop with CHANGES_OFTEN is
\* ordered as if its priority were 64, whatever its declared priority: in
\* the flattened list it stands behind every prop of a lower priority and
\* in front of every prop of a higher one, its own priority taken as 64.
\* ------------------------------------------------------------------------

\* The priority the statement orders e by
Bucket64(e) == IF "CHANGES_OFTEN" \in e.prop.flags THEN 64 ELSE e.prop.priority

\* In the list f every entry that changes often stands, by the priority
\* B gives, neither behind a higher nor in front of a lower entry.
OftenOrderedBy(f, B(_)) ==
    \A m, n \in 1..Len(f) :
        (/\ m < n
         /\ \/ "CHANGES_OFTEN" \in f[m].prop.flags
            \/ "CHANGES_OFTEN" \in f[n].prop.flags)
            => B(f[m]) <= B(f[n])

MaxCalls == 3

\* The functions handed to operator()
Functions == {"f", "g"}

\* The entry ~monitor pushes: [=]{finish = true;}
SetFinish == "finish = true"

\* queue::push
queue_push(q, item) == Append(q, item)

\* queue::pop with an entry available: the entry returned and the queue left
queue_pop(q) == [item |-> Head(q), q |-> Tail(q)]

\* A monitor is about to be constructed.
MonitorInit ==
    mon = [pc |-> "start", finish |-> "uninitialized", q |-> <<>>, worker |-> "none",
           item |-> "", submitted |-> <<>>, ran |-> <<>>]

\* monitor(T _t), up to its third member: t and q are initialized and the
\* worker is started; finish, declared behind worker, is not yet written.
MonitorConstruct ==
    /\ mon.pc = "start"
    /\ mon' = [mon EXCEPT !.pc = "constructing", !.worker = "loop"]
    /\ UNCHANGED nonMonitorVars

\* monitor(T _t), its last member: finish(false).
MonitorConstructFinish ==
    /\ mon.pc = "constructing"
    /\ mon' = [mon EXCEPT !.pc = "alive", !.finish = "false"]
    /\ UNCHANGED nonMonitorVars

\* operator()(F f): the call of f is pushed.
MonitorCall(f) ==
    /\ mon.pc = "alive"
    /\ Len(mon.submitted) < MaxCalls
    /\ mon' = [mon EXCEPT !.q = queue_push(mon.q, f),
                          !.submitted = Append(mon.submitted, f)]
    /\ UNCHANGED nonMonitorVars

\* ~monitor(), up to worker.join()
MonitorDestruct ==
    /\ mon.pc = "alive"
    /\ mon' = [mon EXCEPT !.pc = "joining", !.q = queue_push(mon.q, SetFinish)]
    /\ UNCHANGED nonMonitorVars

\* worker.join() returns: the worker thread has ended.
MonitorJoin ==
    /\ mon.pc = "joining"
    /\ mon.worker = "exited"
    /\ mon' = [mon EXCEPT !.pc = "destroyed"]
    /\ UNCHANGED nonMonitorVars

\* What a read of finish yields: the value written, or either value when
\* the constructor has not written it yet.
FinishRead == IF mon.finish = "uninitialized" THEN {"true", "false"} ELSE {mon.finish}

\* The worker: while (!finish)
WorkerLoop ==
    /\ mon.worker = "loop"
    /\ \E v \in FinishRead :
          mon' = [mon EXCEPT !.worker = IF v = "true" THEN "exited" ELSE "pop"]
    /\ UNCHANGED nonMonitorVars

\* The worker: q.pop(), which blocks while the queue is empty
WorkerPop ==
    /\ mon.worker = "pop"
    /\ mon.q # <<>>
    /\ mon' = [mon EXCEPT !.worker = "call", !.item = queue_pop(mon.q).item,
                          !.q = queue_pop(mon.q).q]
    /\ UNCHANGED nonMonitorVars

\* The worker: the popped entry is called.
WorkerCall ==
    /\ mon.worker = "call"
    /\ mon' = [mon EXCEPT !.worker = "loop",
                          !.finish = IF mon.item = SetFinish THEN "true" ELSE @,
                          !.ran = IF mon.item = SetFinish THEN @ ELSE Append(@, mon.item)]
    /\ UNCHANGED nonMonitorVars

MonitorNext ==
    \/ MonitorConstruct
    \/ MonitorConstructFinish
    \/ \E f \in Functions : MonitorCall(f)
    \/ MonitorDestruct
    \/ MonitorJoin
    \/ WorkerLoop
    \/ WorkerPop
    \/ WorkerCall

\* Only the monitor is exercised.
InitMonitor ==
    MonitorInit /\ HarnessIdle /\ ParserIdle /\ TableIdle /\ HeaderIdle /\
    FlattenIdle /\ NameIdle /\ HandlerIdle /\ StreamIdle /\ RunIdle /\ NetIdle

SpecMonitor == InitMonitor /\ [][MonitorNext]_vars

\* q is the beginning of r
IsPrefix(q, r) == Len(q) <= Len(r) /\ \A k \in 1..Len(q) : q[k] = r[k]

\* C33: every function submitted to a monitor through operator() before its
\* destructor starts is executed exactly once on the worker thread, in
\* submission order, and the destructor returns only after all of them have
\* finished: the functions run are at any time the first of the functions
\* submitted, and all of them once the destructor has returned.
C33_SubmittedRunInOrderBeforeJoin ==
    /\ IsPrefix(mon.ran, mon.submitted)
    /\ mon.pc = "destroyed" => mon.ran = mon.submitted

\* ------------------------------------------------------------------------
\* A replay session: parser::open, parser::read and parser::handle.  The
\* stream is the list of the DEM messages not yet read; run.events lists
\* what the handler was given, in order.
\* ------------------------------------------------------------------------

\* DEM messages of one replay
MaxMessages == 3

\* A message handlePacket is given, one handleClasses is given, one the
\* parser has no case for, and one whose header ends the buffer early.
SessionMessages == {"DEM_Packet", "DEM_ClassInfo", "DEM_FullPacket", "truncated"}

RECURSIVE SessionReplays(_)
SessionReplays(n) ==
    IF n = 0 THEN {<<>>}
    ELSE SessionReplays(n - 1) \cup
         {Append(q, m) : q \in {s \in SessionReplays(n - 1) : Len(s) = n - 1},
                         m \in SessionMessages}

\* dem_stream::good
good(msgs) == msgs # <<>>

\* What the handler is given for the message m: the message itself under
\* forward_dem, otherwise the message when the parser has a case for it.
\* Everything handlePacket, handleClasses and handleSendTables forward is
\* forwarded within the same step and stands for this one entry.
Dispatched(r, m) ==
    IF r.forward_dem THEN <<[family |-> "msgDem", id |-> m]>>
    ELSE IF m = "DEM_Packet" \/ (m = "DEM_ClassInfo" /\ r.parse_entities)
         THEN <<[family |-> "msgDem", id |-> m]>>
         ELSE <<>>

Status(id) == [family |-> "msgStatus", id |-> id]

\* parser::read of parser.cpp on the session r with a message left
parser_read(r) ==
    IF Head(r.msgs) = "truncated"
    THEN [r EXCEPT !.pc = "failed"]
    ELSE LET rest == Tail(r.msgs)
             sent == r.events \o Dispatched(r, Head(r.msgs))
         IN  [r EXCEPT !.msgs = rest,
                       !.events = IF good(rest) THEN sent
                                  ELSE Append(sent, Status("REPLAY_FINISH"))]

\* while (stream->good()) { read(); } of parser.cpp
RECURSIVE parser_readAll(_)
parser_readAll(r) ==
    IF r.pc = "failed" \/ ~good(r.msgs) THEN r ELSE parser_readAll(parser_read(r))

\* The body of the while loop of parser.hpp's handle()
inline_read(r) ==
    IF Head(r.msgs) = "truncated"
    THEN [r EXCEPT !.pc = "failed"]
    ELSE [r EXCEPT !.msgs = Tail(r.msgs),
                   !.events = r.events \o Dispatched(r, Head(r.msgs))]

\* while (stream.good()) { ... } of parser.hpp
RECURSIVE inline_readAll(_)
inline_readAll(r) ==
    IF r.pc = "failed" \/ ~good(r.msgs) THEN r ELSE inline_readAll(inline_read(r))

\* The session ends: the status is forwarded unless a read has thrown.
Finished(r) ==
    IF r.pc = "failed" THEN r
    ELSE [r EXCEPT !.pc = "done", !.events = Append(r.events, Status("REPLAY_FINISH"))]

\* parser::handle
parser_handle(r) ==
    IF r.impl = "parser.cpp" THEN Finished(parser_readAll(r))
    ELSE Finished(inline_readAll(
             [r EXCEPT !.events = Append(r.events, Status("REPLAY_START"))]))

\* A parser is constructed over a replay not yet opened.
RunInit ==
    \E i \in {"parser.cpp", "parser.hpp"}, f \in BOOLEAN, p \in BOOLEAN,
       q \in SessionReplays(MaxMessages) :
        run = [pc |-> "closed", impl |-> i, forward_dem |-> f, parse_entities |-> p,
               msgs |-> q, events |-> <<>>]

\* parser::open
RunOpen ==
    /\ run.pc = "closed"
    /\ run' = [run EXCEPT !.pc = "open",
                          !.events = IF run.impl = "parser.cpp"
                                     THEN Append(@, Status("REPLAY_START")) ELSE @]
    /\ UNCHANGED nonRunVars

\* parser::read, which parser.cpp offers on its own
RunRead ==
    /\ run.pc = "open"
    /\ run.impl = "parser.cpp"
    /\ good(run.msgs)
    /\ run' = parser_read(run)
    /\ UNCHANGED nonRunVars

\* parser::handle, to its end
RunHandle ==
    /\ run.pc = "open"
    /\ run' = parser_handle(run)
    /\ UNCHANGED nonRunVars

RunNext == RunOpen \/ RunRead \/ RunHandle

\* Only a replay session is exercised.
InitRun ==
    RunInit /\ HarnessIdle /\ ParserIdle /\ TableIdle /\ HeaderIdle /\
    FlattenIdle /\ NameIdle /\ HandlerIdle /\ StreamIdle /\ MonitorIdle /\
    NetIdle

SpecRun == InitRun /\ [][RunNext]_vars

\* C34: a complete handle() run over a replay emits the Finish status
\* exactly once, and no other event of the session is emitted after it:
\* when handle() has returned, the events end with the only Finish.
C34_FinishOnceAndLast ==
    run.pc = "done" =>
        /\ Count(run.events, Status("REPLAY_FINISH")) = 1
        /\ run.events[Len(run.events)] = Status("REPLAY_FINISH")

\* ------------------------------------------------------------------------
\* C35: after a Create header addresses an already occupied slot, the
\* resulting entity's property values and the property descriptors used to
\* decode them are determined only by the new class's flattable, its
\* baseline and this Create's delta; nothing decoded for the previous
\* occupant remains observable: the entity has one property per prop of the
\* new flattable and one more, and each property that holds a value is named
\* by the baseline or the delta and carries the name of the new flattable's
\* prop.
\* ------------------------------------------------------------------------

\* The field ids the list q names
FieldsOf(q) == {q[k] : k \in 1..Len(q)}

\* The last header was a Create that decoded an entity into an occupied slot.
CreatedOverOccupant ==
    /\ epc # "failed"
    /\ hist.last.type = "created"
    /\ hist.last.wasInit
    /\ ~hist.last.skipped
    /\ hist.last.id \in DOMAIN SlotMap(hist.last.id)
    /\ SlotMap(hist.last.id)[hist.last.id].cls.id \in DOMAIN baseline.entries

C35_OverwriteKeepsNothingOfOccupant ==
    CreatedOverOccupant =>
        LET e == SlotMap(hist.last.id)[hist.last.id]
            flat == flattables[e.flat]
            named == FieldsOf(baseline.entries[e.cls.id]) \cup FieldsOf(hist.last.fields)
        IN  /\ Len(e.properties) = Len(flat.properties) + 1
            /\ \A k \in 1..Len(e.properties) :
                  e.properties[k].initialized =>
                      /\ (k - 1) \in named
                      /\ k <= Len(flat.properties) =>
                             e.properties[k].name = flat.properties[k].name

\* ------------------------------------------------------------------------
\* parser::forwardMessageContainer over one inner buffer.  net.mem is the
\* memory at data: the n bytes of the buffer, the terminator of c_str() and
\* what lies behind it; net.off is how far data has moved, net.size the
\* remaining-size counter (a negative value s stands for 2^32 + s).
\* net.reads are the offsets the varints were read at, net.out the records
\* handed on.
\* ------------------------------------------------------------------------

\* Bytes of one inner buffer
MaxNetBytes == 3

\* Bytes the buffer is made of; 129 carries the continuation bit
NetByteValues == {0, 1, 2, 129}

NetBuffers == UNION {SeqsOfLen(NetByteValues, k) : k \in 0..MaxNetBytes}

\* What lies behind the terminator: reading there is undefined, the bytes
\* stand for what such a read yields and a read behind them for a crash.
NetBehind == {<<>>, <<0>>, <<1, 2>>}

VarIntDone(val, count, reads) ==
    [ok |-> TRUE, err |-> "", val |-> val, count |-> count, reads |-> reads]

VarIntFail(e, count, reads) ==
    [ok |-> FALSE, err |-> e, val |-> 0, count |-> count, reads |-> reads]

\* parser::readVarInt(data, count), the do-while loop; at is where data
\* points in mem, g is stream->good()
RECURSIVE parser_readVarInt(_, _, _, _, _, _)
parser_readVarInt(mem, at, g, count, result, reads) ==
    IF count = 5 THEN VarIntFail("demCorrupted", count, reads)
    ELSE IF ~g THEN VarIntFail("demUnexpectedEOF", count, reads)
    ELSE IF at + count >= Len(mem) THEN VarIntFail("undefined", count, reads \cup {at + count})
    ELSE LET buffer == mem[at + count + 1]
             r == result + (buffer % 128) * Pow2(7 * count)
         IN  IF buffer >= 128
             THEN parser_readVarInt(mem, at, g, count + 1, r, reads \cup {at + count})
             ELSE VarIntDone(r, count + 1, reads \cup {at + count})

\* if (mSize > size) on uint32_t
SizeExceeds(mSize, size) == size >= 0 /\ mSize > size

\* forwardMessageContainer is called with data and size.
NetInit ==
    \E b \in NetBuffers, u \in NetBehind, g \in BOOLEAN :
        net = [pc |-> "loop", n |-> Len(b), mem |-> b \o <<0>> \o u, good |-> g,
               off |-> 0, size |-> Len(b), err |-> "", reads |-> {}, out |-> <<>>]

\* One pass of while (size): the type, the size, the check, the record.
NetRecord ==
    /\ net.pc = "loop"
    /\ net.size # 0
    /\ LET Fail(e, reads) ==
               net' = [net EXCEPT !.pc = "failed", !.err = e, !.reads = reads]
           Body(mType, mSize, at, size, reads) ==
               IF SizeExceeds(mSize, size)
               THEN net' = [net EXCEPT !.pc = "failed", !.err = "demUnexpectedEOF",
                                       !.off = at, !.size = size, !.reads = reads]
               ELSE net' = [net EXCEPT !.off = at + mSize, !.size = size - mSize,
                                       !.reads = reads,
                                       !.out = Append(@, [type |-> mType, at |-> at,
                                                          size |-> mSize])]
           Size(t, s) ==
               IF ~s.ok THEN Fail(s.err, s.reads)
               ELSE Body(t.val, s.val, net.off + t.count + s.count,
                         net.size - t.count - s.count, s.reads)
           Type(t) ==
               IF ~t.ok THEN Fail(t.err, t.reads)
               ELSE Size(t, parser_readVarInt(net.mem, net.off + t.count, net.good, 0, 0,
                                              t.reads))
       IN  Type(parser_readVarInt(net.mem, net.off, net.good, 0, 0, net.reads))
    /\ UNCHANGED nonNetVars

\* while (size) ends: forwardMessageContainer returns.
NetEnd ==
    /\ net.pc = "loop"
    /\ net.size = 0
    /\ net' = [net EXCEPT !.pc = "done"]
    /\ UNCHANGED nonNetVars

NetNext == NetRecord \/ NetEnd

\* Only a message container is demultiplexed.
InitNet ==
    NetInit /\ HarnessIdle /\ ParserIdle /\ TableIdle /\ HeaderIdle /\
    FlattenIdle /\ NameIdle /\ HandlerIdle /\ StreamIdle /\ MonitorIdle /\ RunIdle

SpecNet == InitNet /\ [][NetNext]_vars

\* C36: while demultiplexing an inner NET buffer of length n, the type
\* varint, the size varint and the record bytes are read only from within
\* those n bytes and the remaining-size counter never underflows; a buffer
\* that ends inside a record header or body fails with UnexpectedEOF and is
\* never demultiplexed to its end.
C36_DemuxStaysWithinBuffer ==
    /\ \A o \in net.reads : o < net.n
    /\ \A k \in 1..Len(net.out) : net.out[k].at + net.out[k].size <= net.n
    /\ net.size >= 0
    /\ net.pc = "failed" => net.err # "undefined"
    /\ net.pc = "done" => net.off = net.n

\* ------------------------------------------------------------------------
\* C37: a string-table delta entry that carries no value (hasValue = 0)
\* leaves the stored value of an already existing entry with that key or
\* index unchanged.
\* ------------------------------------------------------------------------
C37_NoValueKeepsStoredValue ==
    \A i \in 1..Len(stlog) :
        ~stlog[i].hasValue =>
            \A j \in 1..Len(stlog[i].before) :
                (\/ stlog[i].hasName /\ stlog[i].before[j].key = stlog[i].key
                 \/ stlog[i].before[j].index = stlog[i].index)
                    => stlog[i].after[j].value = stlog[i].before[j].value

\* ------------------------------------------------------------------------
\* C38: every entity passed to an Entity subscriber has had its class
\* baseline applied, including an entity whose Create was processed while
\* its class was skipped (skip_unsubscribed_entities with no subscriber) and
\* whose subscriber was registered before a later Update: in an entity
\* handed to a subscriber every property the baseline of its class names
\* holds a value.
\* ------------------------------------------------------------------------
C38_SubscribersSeeBaseline ==
    \A k \in 1..Len(events) :
        (/\ events[k].family = "msgEntity"
         /\ events[k].delivered
         /\ events[k].data.cls.id \in DOMAIN baseline.entries)
            => \A f \in FieldsOf(baseline.entries[events[k].data.cls.id]) :
                  /\ f < Len(events[k].data.properties)
                  /\ events[k].data.properties[f + 1].initialized

\* ------------------------------------------------------------------------
\* C39: an Update or Delete header that addresses an uninitialized slot
\* fails with InvalidId without invoking any subscriber and without changing
\* any slot, whereas a delta-tail-sweep id that addresses an uninitialized
\* slot is ignored without error.
\* ------------------------------------------------------------------------

\* The id names a slot of the store and the slot holds no entity.
EmptySlot(id) == id >= 0 /\ id < DOTA_MAX_ENTITIES /\ id \notin DOMAIN entities

C39_MissingEntityFailsHeaderNotSweep ==
    [][/\ \A nId \in HeaderIncrements, t \in {"updated", "deleted"},
             f \in FieldLists \cup {<<>>}, ub \in UbChoices :
               (/\ EmptySlot(AddId(rec.eId, nId))
                /\ HandleHeader(nId, t, 0, f, "garbage", ub))
                   => (/\ epc' = "failed"
                       /\ err' = "aliceInvalidId"
                       /\ events' = events
                       /\ entities' = entities
                       /\ oob' = oob)
       /\ \A id \in SweepIds :
               (EmptySlot(id) /\ SweepEntry(id))
                   => (/\ epc' = epc
                       /\ err' = err
                       /\ events' = events
                       /\ entities' = entities
                       /\ oob' = oob)]_vars

\* A header behind the first of a record named an empty slot of a store
\* that holds an entity, and the record failed with InvalidId.
C39_Witness ==
    /\ epc = "failed"
    /\ err = "aliceInvalidId"
    /\ rec.i = 2
    /\ EmptySlot(rec.eId)
    /\ entities # EmptyMap

\* ------------------------------------------------------------------------
\* C40: within one PacketEntities record the entity ids decoded from
\* successive headers are strictly increasing, so no slot is addressed by
\* two headers of the same record: the id a header leaves is above the id
\* the header in front of it left.
\* ------------------------------------------------------------------------

\* a < b on uint32_t values given as their 32 bits
U32Less(a, b) ==
    LET hi(x) == BitsToNat(SubSeq(x, 17, 32))
        lo(x) == BitsToNat(SubSeq(x, 1, 16))
    IN  hi(a) < hi(b) \/ (hi(a) = hi(b) /\ lo(a) < lo(b))

C40_HeaderIdsStrictlyIncrease ==
    (/\ hdr.n >= 1
     /\ hdr.res.ok
     /\ hdr.id # [i \in 1..32 |-> 1])
        => U32Less(hdr.id, hdr.res.id)
====
